---- MODULE Spec2Model ----
(***************************************************************************)
(* mctool: the MinecraftServer process supervisor of src/mctool.py.        *)
(*                                                                         *)
(* The server runs inside a screen session named "minecraft".  Every       *)
(* operation of MinecraftServer (start, stop, send_command) is a sequence  *)
(* of external invocations (screen -ls, screen -dmS, screen -X stuff,      *)
(* screen -X quit, time.sleep); the environment (the server process, the   *)
(* user, other tools) may change the session between two of them.  Each    *)
(* program step below is one such invocation together with the code that   *)
(* follows it up to the next one.                                          *)
(***************************************************************************)
EXTENDS Integers, Sequences, FiniteSets, TLC

(***************************************************************************)
(* Program constants                                                       *)
(***************************************************************************)
\* history = history[:20]
HistoryCap == 20
\* for i in range(30)
StopPolls == 30
\* f.readlines()[-10:]
TailLines == 10
\* if 1 <= max_b <= 100
MaxBackupsLimit == 100
\* "ram_gb": 4
DefaultRam == 4

(***************************************************************************)
(* Bounds of the model                                                     *)
(***************************************************************************)
\* the clock runs from 1 to MaxClock
MaxClock == 3
\* max_backups values tried are 0..MaxKeep + 1
MaxKeep == 2
\* successful create_backup calls counted in one behaviour
MaxCreates == 3
\* the console's command buffer holds at most MaxBuf characters
MaxBuf == 2
\* commands the user may type are 1..NumCmds
NumCmds == 3
\* confirmed injections followed in one behaviour
MaxSends == 3
\* lines appended to server.log in one behaviour
MaxLogWrites == 2

Commands == 1..NumCmds

VARIABLES
    session,    \* the screen session "minecraft" exists
    screenBin,  \* the screen binary is on PATH
    jar,        \* server_dir/server.jar exists
    log,        \* server_dir/server.log: [exists, lines]
    written,    \* lines appended to server.log so far
    history,    \* config.data["command_history"] (in memory)
    stored,     \* command_history as last written to .mctool.json
    history0,   \* the history loaded at construction
    sent,       \* commands whose injection screen confirmed, in order
    pc,         \* position of the running operation, "idle" between operations
    op,         \* the operation invoked last
    arg,        \* its argument (the command of send_command)
    polls,      \* loop variable i of stop()'s poll loop
    result,     \* what the operation returned: [ok, err, tail]
    trace,      \* external invocations of the operation, in order
    status,     \* what get_status() reported last: [known, running, installed]
    worlds,     \* subdirectories of server_dir that hold a level.dat
    backupDir,  \* server_dir/backups exists
    archives,   \* the *.tar.gz files in it: [ver, sec, mtime, partial]
    clock,      \* the wall clock, in seconds
    curVersion, \* config.data["current_version"]
    maxBackups, \* config.data["max_backups"]
    target,     \* backup_name of the create_backup under way: [ver, sec]
    before,     \* backups directory when create_backup was invoked
    prePrune,   \* the archives when _cleanup_old_backups was entered
    madeCount,  \* successful create_backup calls since max_backups was set
    cfgFile,    \* the content of .mctool.json
    cfgState,   \* the Config object: "none", "fresh", "set" or "raised"
    cfgData,    \* Config.data
    expected,   \* per key, the value last set, else the file's, else the default
    setKeys,    \* the keys set so far
    ramGb,      \* config.data["ram_gb"]
    serverType, \* config.data["server_type"]
    autoBackup, \* config.data["auto_backup"]
    req,        \* the install under way: [ver, ram, paper, auto]
    recBefore,  \* [ver, ram, type] of the configuration when it was invoked
    inputMode,  \* stdscr input: "blocking" or "nonblocking"
    cbuf,       \* command_buffer of the console
    cursorPos,  \* cursor_pos
    historyIdx, \* history_idx
    autoScroll, \* auto_scroll
    scrollOffset, \* scroll_offset
    chist,      \* the list the console's local name history is bound to
    aliased,    \* that list is still the one config.data["command_history"] holds
    nlines,     \* len(lines) of the console's last reading of server.log
    seenRunning, \* running, as the console's last redraw found is_running()
    lastKey,    \* the key getch() returned last
    listing,    \* what list_backups() returned last
    historyB,   \* command_history in the memory of a second invocation of the tool
    persisted,  \* the commands that were written to .mctool.json at some time
    launchLen   \* the length of server.log when start() launched the session

backupVars == <<worlds, backupDir, archives, clock, curVersion, maxBackups,
                target, before, prePrune, madeCount>>

configVars == <<cfgFile, cfgState, cfgData, expected, setKeys>>

installVars == <<ramGb, serverType, autoBackup, req, recBefore>>

consoleVars == <<inputMode, cbuf, cursorPos, historyIdx, autoScroll,
                 scrollOffset, chist, aliased, nlines, seenRunning,
                 lastKey>>

lateVars == <<listing, historyB, persisted, launchLen>>

vars == <<session, screenBin, jar, log, written, history, stored, history0,
          sent, pc, op, arg, polls, result, trace, status, backupVars,
          configVars, lateVars, installVars, consoleVars>>

\* what start, stop and send_command leave alone
otherVars == <<status, backupVars, configVars, lateVars, installVars, consoleVars>>

envVars == <<session, screenBin, jar, log, written>>
histVars == <<history, stored, history0, sent>>

(***************************************************************************)
(* Helpers                                                                 *)
(***************************************************************************)
Range(s) == {s[i] : i \in 1..Len(s)}

Contains(s, x) == \E i \in 1..Len(s) : s[i] = x

NoDuplicates(s) == \A i, j \in 1..Len(s) : s[i] = s[j] => i = j

\* s[:n]
Take(s, n) == SubSeq(s, 1, IF Len(s) < n THEN Len(s) ELSE n)

\* s[-n:]
LastN(s, n) == SubSeq(s, IF Len(s) > n THEN Len(s) - n + 1 ELSE 1, Len(s))

\* the entries of s other than x, in order
RECURSIVE Without(_, _)
Without(s, x) ==
    IF s = <<>> THEN <<>>
    ELSE IF Head(s) = x THEN Without(Tail(s), x)
    ELSE <<Head(s)>> \o Without(Tail(s), x)

Count(s, x) == Cardinality({i \in 1..Len(s) : s[i] = x})

(***************************************************************************)
(* Results: the (bool, message) tuples the operations return.  err names   *)
(* the message, tail is the log tail a crash message carries.  "Pending"   *)
(* is the operation that has not returned, "Raised" an exception that      *)
(* leaves the operation.                                                   *)
(***************************************************************************)
Ok(kind) == [ok |-> TRUE, err |-> kind, tail |-> <<>>]
Fail(kind) == [ok |-> FALSE, err |-> kind, tail |-> <<>>]
FailWithLog(kind, lines) == [ok |-> FALSE, err |-> kind, tail |-> lines]
Pending == [ok |-> FALSE, err |-> "Pending", tail |-> <<>>]

(***************************************************************************)
(* MinecraftServer.is_running: screen -ls lists the session; a missing     *)
(* binary (FileNotFoundError) reads as not running.                        *)
(***************************************************************************)
\* faulty variant: the binary is taken to be there
IsRunningBinAssumed == session

IsRunning == screenBin /\ session

LsEvent(running) == IF running THEN "ls+" ELSE "ls-"

(***************************************************************************)
(* MinecraftServer.send_command                                            *)
(***************************************************************************)
\* faulty variant: the running check left out
SendAllowedAlways(running) == TRUE

\* if not self.is_running(): return False, "Server is not running"
SendAllowed(running) == running

\* faulty variant: every command is inserted, present or not
RecordCommandAlwaysInsert(h, c) == Take(<<c>> \o h, HistoryCap)

\* history update of send_command: insert at the front unless present,
\* then keep the first 20
RecordCommand(h, c) ==
    IF Contains(h, c) THEN h ELSE Take(<<c>> \o h, HistoryCap)

\* the user invokes send_command(c)
SendCall(c) ==
    /\ pc = "idle"
    /\ Len(sent) < MaxSends
    /\ pc' = "send_check"
    /\ op' = "send"
    /\ arg' = c
    /\ result' = Pending
    /\ trace' = <<>>
    /\ UNCHANGED <<otherVars, envVars, histVars, polls>>

\* the is_running check on entry
SendCheck ==
    /\ pc = "send_check"
    /\ trace' = Append(trace, LsEvent(IsRunning))
    /\ IF SendAllowed(IsRunning)
       THEN pc' = "send_stuff" /\ result' = result
       ELSE pc' = "idle" /\ result' = Fail("NotRunning")
    /\ UNCHANGED <<otherVars, envVars, histVars, op, arg, polls>>

\* faulty variant: the history is updated before the injection is known to succeed
HistoryAfterStuffUnconfirmed(h, c, injected) == RecordCommand(h, c)

\* the history after the injection: updated only when screen confirmed it
\* (check=True raises CalledProcessError before the update otherwise)
HistoryAfterStuff(h, c, injected) ==
    IF injected THEN RecordCommand(h, c) ELSE h

\* screen -S minecraft -X stuff "<command>\n" with check=True, then the
\* history update; Config.set assigns the key and then saves, and a save
\* that fails raises out of send_command.  The injection cannot succeed
\* without a session.
SendStuff ==
    /\ pc = "send_stuff"
    /\ pc' = "idle"
    /\ \E injected \in (IF session THEN BOOLEAN ELSE {FALSE}), saved \in BOOLEAN :
        LET needsSave == injected /\ ~Contains(history, arg)
        IN  /\ trace' = Append(trace, IF injected THEN "stuff" ELSE "stuff_fail")
            /\ sent' = IF injected THEN Append(sent, arg) ELSE sent
            /\ history' = HistoryAfterStuff(history, arg, injected)
            /\ stored' = IF needsSave /\ saved THEN history' ELSE stored
            /\ result' = IF ~injected THEN Fail("DispatchError")
                         ELSE IF needsSave /\ ~saved THEN Fail("Raised")
                         ELSE Ok("CommandSent")
    /\ UNCHANGED <<otherVars, envVars, history0, op, arg, polls>>

(***************************************************************************)
(* MinecraftServer.start                                                   *)
(***************************************************************************)
\* faulty variant: the installed check made before the running check
StartPrecheckJarFirst(running, jarPresent) ==
    IF ~jarPresent THEN "NotInstalled"
    ELSE IF running THEN "AlreadyRunning"
    ELSE "Proceed"

\* faulty variant: the installed check left out
StartPrecheckNoJar(running, jarPresent) ==
    IF running THEN "AlreadyRunning" ELSE "Proceed"

\* the two early returns of start(): already running, then server.jar absent
StartPrecheck(running, jarPresent) ==
    IF running THEN "AlreadyRunning"
    ELSE IF ~jarPresent THEN "NotInstalled"
    ELSE "Proceed"

\* faulty variant: the return code of screen is not looked at
LaunchOutcomeAnyCode(binPresent, accepted) ==
    IF ~binPresent THEN "ScreenNotFound" ELSE "Launched"

\* screen -dmS: FileNotFoundError without the binary, "Screen failed" on a
\* non-zero return code
LaunchOutcome(binPresent, accepted) ==
    IF ~binPresent THEN "ScreenNotFound"
    ELSE IF ~accepted THEN "ScreenFailed"
    ELSE "Launched"

\* log_tail.strip(): some line of the tail is more than whitespace
HasText(lines) == \E i \in 1..Len(lines) : lines[i] # "blank"

\* faulty variant: the session is not queried again after the launch
StartVerdictNoRequery(running, lg) == Ok("Started")

\* faulty variant: only what was appended since the launch is looked at
StartVerdictSinceLaunch(running, lg) ==
    IF running THEN Ok("Started")
    ELSE IF lg.exists
            /\ HasText(LastN(SubSeq(lg.lines, launchLen + 1, Len(lg.lines)),
                              TailLines))
         THEN FailWithLog("CrashedOnStart",
                          LastN(SubSeq(lg.lines, launchLen + 1, Len(lg.lines)),
                                TailLines))
         ELSE Fail("ExitedImmediately")

\* the verdict of start() after the settle wait: running, or the log tail
\* (last 10 lines) when it has text, or "exited immediately"
StartVerdict(running, lg) ==
    IF running THEN Ok("Started")
    ELSE IF lg.exists /\ HasText(LastN(lg.lines, TailLines))
         THEN FailWithLog("CrashedOnStart", LastN(lg.lines, TailLines))
         ELSE Fail("ExitedImmediately")

\* the user invokes start()
StartCall ==
    /\ pc = "idle"
    /\ pc' = "start_check"
    /\ op' = "start"
    /\ arg' = 0
    /\ result' = Pending
    /\ trace' = <<>>
    /\ UNCHANGED <<otherVars, envVars, histVars, polls>>

\* is_running, then os.path.exists(server.jar) when not running
StartCheck ==
    /\ pc = "start_check"
    /\ trace' = IF IsRunning THEN <<"ls+">>
                ELSE <<"ls-", IF jar THEN "jar+" ELSE "jar-">>
    /\ LET verdict == StartPrecheck(IsRunning, jar)
       IN  IF verdict = "Proceed"
           THEN pc' = "start_launch" /\ result' = result
           ELSE pc' = "idle" /\ result' = Fail(verdict)
    /\ UNCHANGED <<otherVars, envVars, histVars, op, arg, polls>>

\* screen -dmS minecraft bash -c "java ... | tee -a server.log"
StartLaunch ==
    /\ pc = "start_launch"
    /\ \E accepted \in BOOLEAN :
        LET outcome == LaunchOutcome(screenBin, accepted)
        IN  /\ trace' = Append(trace, IF ~screenBin THEN "launch_nobin"
                                      ELSE IF accepted THEN "launch"
                                      ELSE "launch_nonzero")
            /\ session' = IF screenBin /\ accepted THEN TRUE ELSE session
            /\ IF outcome = "Launched"
               THEN pc' = "start_settle" /\ result' = result
               ELSE pc' = "idle" /\ result' = Fail(outcome)
    /\ launchLen' = Len(log.lines)
    /\ UNCHANGED <<status, backupVars, configVars, installVars, consoleVars,
                   listing, historyB, persisted,
                   screenBin, jar, log, written, histVars, op, arg, polls>>

\* time.sleep(1)
StartSettle ==
    /\ pc = "start_settle"
    /\ pc' = "start_requery"
    /\ trace' = Append(trace, "sleep")
    /\ UNCHANGED <<otherVars, envVars, histVars, op, arg, polls, result>>

\* is_running again; when it fails, the tail of server.log
StartRequery ==
    /\ pc = "start_requery"
    /\ pc' = "idle"
    /\ trace' = Append(trace, LsEvent(IsRunning))
    /\ result' = StartVerdict(IsRunning, log)
    /\ UNCHANGED <<otherVars, envVars, histVars, op, arg, polls>>

(***************************************************************************)
(* MinecraftServer.stop                                                    *)
(***************************************************************************)
\* faulty variant: the running check left out
StopAllowedAlways(running) == TRUE

\* if not self.is_running(): return False, "Server is not running"
StopAllowed(running) == running

\* faulty variant: one iteration too many
MorePollsInclusive(n) == n <= StopPolls

\* for i in range(30), n the iterations completed
MorePolls(n) == n < StopPolls

\* faulty variant: the loop keeps polling until the window is used up
PollStoppedNever(running) == FALSE

\* if not self.is_running(): the poll that ends the loop
PollStopped(running) == ~running

\* faulty variant: quit run without check=True
QuitOutcomeUnchecked(done) == Ok("Terminated")

\* the forced path: "Server terminated", or CalledProcessError caught as
\* "Failed to stop server"
QuitOutcome(done) == IF done THEN Ok("Terminated") ELSE Fail("StopFailed")

\* the user invokes stop(graceful)
StopCall(graceful) ==
    /\ pc = "idle"
    /\ pc' = "stop_check"
    /\ op' = IF graceful THEN "stop_graceful" ELSE "stop_forced"
    /\ arg' = 0
    /\ polls' = 0
    /\ result' = Pending
    /\ trace' = <<>>
    /\ UNCHANGED <<otherVars, envVars, histVars>>

\* the is_running check on entry
StopCheck ==
    /\ pc = "stop_check"
    /\ trace' = Append(trace, LsEvent(IsRunning))
    /\ IF StopAllowed(IsRunning)
       THEN /\ pc' = IF op = "stop_graceful" THEN "stop_stuff" ELSE "stop_quit"
            /\ result' = result
       ELSE pc' = "idle" /\ result' = Fail("NotRunning")
    /\ UNCHANGED <<otherVars, envVars, histVars, op, arg, polls>>

\* screen -S minecraft -p 0 -X stuff "stop\n" with check=True
StopStuff ==
    /\ pc = "stop_stuff"
    /\ \E injected \in (IF session THEN BOOLEAN ELSE {FALSE}) :
        IF injected
        THEN /\ trace' = Append(trace, "stuff")
             /\ pc' = "stop_loop"
             /\ result' = result
        ELSE /\ trace' = Append(trace, "stuff_fail")
             /\ pc' = "idle"
             /\ result' = Fail("StopFailed")
    /\ UNCHANGED <<otherVars, envVars, histVars, op, arg, polls>>

\* head of the poll loop: time.sleep(1) while iterations remain, the
\* timeout return after the last one
StopLoop ==
    /\ pc = "stop_loop"
    /\ IF MorePolls(polls)
       THEN /\ trace' = Append(trace, "sleep")
            /\ pc' = "stop_poll"
            /\ result' = result
       ELSE /\ trace' = trace
            /\ pc' = "idle"
            /\ result' = Fail("StopTimeout")
    /\ UNCHANGED <<otherVars, envVars, histVars, op, arg, polls>>

\* if not self.is_running(): return True, "Server stopped gracefully"
StopPoll ==
    /\ pc = "stop_poll"
    /\ trace' = Append(trace, LsEvent(IsRunning))
    /\ polls' = polls + 1
    /\ IF PollStopped(IsRunning)
       THEN pc' = "idle" /\ result' = Ok("StoppedGracefully")
       ELSE pc' = "stop_loop" /\ result' = result
    /\ UNCHANGED <<otherVars, envVars, histVars, op, arg>>

\* screen -S minecraft -X quit with check=True
StopQuit ==
    /\ pc = "stop_quit"
    /\ pc' = "idle"
    /\ \E done \in (IF session THEN BOOLEAN ELSE {FALSE}) :
        /\ trace' = Append(trace, IF done THEN "quit" ELSE "quit_fail")
        /\ session' = IF done THEN FALSE ELSE session
        /\ result' = QuitOutcome(done)
    /\ UNCHANGED <<otherVars, screenBin, jar, log, written, histVars, op, arg, polls>>

(***************************************************************************)
(* MinecraftServer.get_status                                              *)
(***************************************************************************)
NoStatus == [known |-> FALSE, running |-> FALSE, installed |-> FALSE]

\* faulty variant: the state reported last time is reported again
StatusRunningCached(running) == status.running

\* "running": running, with running = self.is_running()
StatusRunning(running) == running

\* the user asks for the status
StatusCall ==
    /\ pc = "idle"
    /\ pc' = "status_check"
    /\ op' = "status"
    /\ arg' = 0
    /\ result' = Pending
    /\ trace' = <<>>
    /\ UNCHANGED <<envVars, histVars, polls, status, configVars, lateVars, installVars,
                   consoleVars,
                   backupVars>>

\* is_running, then os.path.exists(server.jar); nothing is changed
StatusCheck ==
    /\ pc = "status_check"
    /\ pc' = "idle"
    /\ trace' = Append(trace, LsEvent(IsRunning))
    /\ status' = [known |-> TRUE, running |-> StatusRunning(IsRunning),
                  installed |-> jar]
    /\ result' = Ok("Status")
    /\ UNCHANGED <<backupVars, configVars, lateVars, installVars, consoleVars, envVars,
                   histVars, op, arg, polls>>

(***************************************************************************)
(* BackupManager                                                           *)
(***************************************************************************)
Worlds == {"world"}
Versions == {1, 2}

NoTarget == [ver |-> 0, sec |-> 0]

NameOf(a) == [ver |-> a.ver, sec |-> a.sec]

\* f"backup_{version}_{timestamp}.tar.gz", the timestamp to the second
BackupName(version, now) == [ver |-> version, sec |-> now]

\* the order of backups.sort(reverse=True) on (mtime, path): later
\* modification first, the greater path first among equal times
SortsBefore(a, b) ==
    \/ a.mtime > b.mtime
    \/ a.mtime = b.mtime /\ a.ver > b.ver
    \/ a.mtime = b.mtime /\ a.ver = b.ver /\ a.sec > b.sec

\* faulty variant: one archive more than max_backups is kept
KeptOneTooMany(files, k) ==
    {a \in files : Cardinality({b \in files : SortsBefore(b, a)}) < k + 1}

\* what _cleanup_old_backups leaves: backups[:max_backups] of the sorted list
Kept(files, k) ==
    {a \in files : Cardinality({b \in files : SortsBefore(b, a)}) < k}

\* faulty variant: the backups directory is made before the worlds are looked for
BackupPossibleAlways(found) == TRUE

\* if not worlds: return False, "No world folders found to backup"
BackupPossible(found) == found # {}

\* faulty variant: the old archives are pruned whether or not the archive was written
PruneAfterAlways(outcome) == TRUE

\* _cleanup_old_backups is called after the with block, which an exception
\* of tarfile leaves
PruneAfter(outcome) == outcome = "complete"

\* tarfile.open(backup_path, "w:gz") creates or truncates the file of that
\* name; the file stays when writing fails part-way
FilesAfterWrite(files, name, now, outcome) ==
    IF outcome = "none" THEN files
    ELSE {a \in files : NameOf(a) # name}
            \cup {[ver |-> name.ver, sec |-> name.sec, mtime |-> now,
                   partial |-> (outcome = "partial")]}

\* the user invokes create_backup()
BackupCall ==
    /\ pc = "idle"
    /\ madeCount < MaxCreates
    /\ pc' = "backup_scan"
    /\ op' = "backup"
    /\ arg' = 0
    /\ result' = Pending
    /\ trace' = <<>>
    /\ target' = NoTarget
    /\ before' = [dir |-> backupDir, files |-> archives]
    /\ prePrune' = {}
    /\ UNCHANGED <<envVars, histVars, polls, status, configVars, lateVars, installVars,
                   consoleVars,
                   worlds, backupDir,
                   archives, clock, curVersion, maxBackups, madeCount>>

\* get_world_folders, then os.makedirs(backup_dir) and the name of the archive
BackupScan ==
    /\ pc = "backup_scan"
    /\ IF BackupPossible(worlds)
       THEN /\ pc' = "backup_write"
            /\ trace' = <<"scan", "makedirs">>
            /\ backupDir' = TRUE
            /\ target' = BackupName(curVersion, clock)
            /\ result' = result
       ELSE /\ pc' = "idle"
            /\ trace' = <<"scan">>
            /\ result' = Fail("NoWorlds")
            /\ UNCHANGED <<backupDir, target>>
    /\ UNCHANGED <<envVars, histVars, polls, status, configVars, lateVars, installVars,
                   consoleVars,
                   op, arg, worlds, archives,
                   clock, curVersion, maxBackups, before, prePrune, madeCount>>

WriteEvent(outcome) ==
    CASE outcome = "complete" -> "write"
      [] outcome = "partial" -> "write_partial"
      [] outcome = "none" -> "open_fail"

\* the with tarfile.open(...) block: the archive is written whole, or
\* writing fails part-way, or the file cannot even be opened
BackupWrite ==
    /\ pc = "backup_write"
    /\ \E outcome \in {"complete", "partial", "none"} :
        /\ archives' = FilesAfterWrite(archives, target, clock, outcome)
        /\ trace' = Append(trace, WriteEvent(outcome))
        /\ IF PruneAfter(outcome)
           THEN pc' = "backup_prune" /\ result' = result
           ELSE pc' = "idle" /\ result' = Fail("ArchiveError")
    /\ UNCHANGED <<envVars, histVars, polls, status, configVars, lateVars, installVars,
                   consoleVars,
                   op, arg, worlds, backupDir,
                   clock, curVersion, maxBackups, target, before, prePrune,
                   madeCount>>

\* _cleanup_old_backups, then return True, "Backup created: <name>"
BackupPrune ==
    /\ pc = "backup_prune"
    /\ pc' = "idle"
    /\ trace' = Append(trace, "prune")
    /\ prePrune' = archives
    /\ archives' = Kept(archives, maxBackups)
    /\ madeCount' = madeCount + 1
    /\ result' = Ok("BackupCreated")
    /\ UNCHANGED <<envVars, histVars, polls, status, configVars, lateVars, installVars,
                   consoleVars,
                   op, arg, worlds, backupDir,
                   clock, curVersion, maxBackups, target, before>>

\* TUI.handle_settings, "Max backups to keep": the value is stored when it
\* is within 1..100, and nothing is pruned
SetMaxBackups(n) ==
    /\ pc = "idle"
    /\ maxBackups' = IF 1 <= n /\ n <= MaxBackupsLimit THEN n ELSE maxBackups
    /\ madeCount' = IF maxBackups' # maxBackups THEN 0 ELSE madeCount
    /\ op' = "set_max_backups"
    /\ arg' = 0
    /\ result' = Pending
    /\ trace' = <<>>
    /\ UNCHANGED <<envVars, histVars, polls, status, configVars, lateVars, installVars,
                   consoleVars,
                   pc, worlds, backupDir,
                   archives, clock, curVersion, target, before, prePrune>>

\* a second passes
Tick ==
    /\ clock < MaxClock
    /\ clock' = clock + 1
    /\ UNCHANGED <<envVars, histVars, polls, status, configVars, lateVars, installVars,
                   consoleVars,
                   pc, op, arg, result, trace,
                   worlds, backupDir, archives, curVersion, maxBackups, target,
                   before, prePrune, madeCount>>

\* a world folder is created or removed between two operations
WorldChanges(w) ==
    /\ pc = "idle"
    /\ worlds' = IF w \in worlds THEN worlds \ {w} ELSE worlds \cup {w}
    /\ UNCHANGED <<envVars, histVars, polls, status, configVars, lateVars, installVars,
                   consoleVars,
                   pc, op, arg, result, trace,
                   backupDir, archives, clock, curVersion, maxBackups, target,
                   before, prePrune, madeCount>>

(***************************************************************************)
(* BackupManager.list_backups.  "date" is the naive local time of the      *)
(* modification time, datetime.fromtimestamp(st_mtime); the zones are UTC   *)
(* and one in which the clocks are set back at FallBack by SetBack.         *)
(***************************************************************************)
Zones == {"utc", "dst"}

\* the instant at which the clocks of the zone "dst" are set back
FallBack == 2
\* and by how much
SetBack == 2

\* datetime.fromtimestamp(t) in the zone, as naive datetimes compare
LocalTime(zone, t) == IF zone = "dst" /\ t < FallBack THEN t + SetBack ELSE t

\* the orders in which os.listdir may give the files
Orderings(files) ==
    {s \in [1..Cardinality(files) -> files] : Range(s) = files}

\* backups.sort(key=lambda x: x["date"], reverse=True): a stable sort on
\* the date alone
SortedByDate(zone, s) ==
    \A i, j \in 1..Len(s) :
        i < j => LocalTime(zone, s[i].mtime) >= LocalTime(zone, s[j].mtime)

\* the user invokes list_backups()
ListCall ==
    /\ pc = "idle"
    /\ pc' = "list"
    /\ op' = "list"
    /\ arg' = 0
    /\ result' = Pending
    /\ trace' = <<>>
    /\ listing' = <<>>
    /\ UNCHANGED <<envVars, histVars, polls, status, backupVars, configVars,
                   installVars, consoleVars, historyB, persisted, launchLen>>

\* the empty list without the directory, else the *.tar.gz files of the
\* directory sorted by date, newest first, in the zone of the process
ListReturn ==
    /\ pc = "list"
    /\ pc' = "idle"
    /\ result' = Ok("Listed")
    /\ IF ~backupDir
       THEN listing' = <<>> /\ trace' = <<"no_dir">>
       ELSE \E zone \in Zones :
            /\ trace' = <<zone>>
            /\ \E s \in Orderings(archives) :
                SortedByDate(zone, s) /\ listing' = s
    /\ UNCHANGED <<envVars, histVars, polls, status, backupVars, configVars,
                   installVars, consoleVars, op, arg, historyB, persisted,
                   launchLen>>

\* the backup side of a run that makes no backups
NoBackupActivity ==
    /\ worlds = {"world"}
    /\ backupDir = FALSE
    /\ archives = {}
    /\ clock = 1
    /\ curVersion = 1
    /\ maxBackups = 1
    /\ target = NoTarget
    /\ before = [dir |-> FALSE, files |-> {}]
    /\ prePrune = {}
    /\ madeCount = 0

(***************************************************************************)
(* Config.  Python values and JSON values are records [t, v]; a dict and a *)
(* JSON object are functions on AllKeys in which Missing marks the keys    *)
(* that are not there.                                                     *)
(***************************************************************************)
ConfigKeys == {"ram_gb", "current_version", "auto_backup"}
AllKeys == ConfigKeys \cup {"motd"}

Missing == [t |-> "missing", v |-> 0]
PyInt(n) == [t |-> "int", v |-> n]
PyStr(i) == [t |-> "str", v |-> i]
PyBool(b) == [t |-> "bool", v |-> IF b THEN 1 ELSE 0]
PyNone == [t |-> "None", v |-> 0]
PyList == [t |-> "list", v |-> 0]

JNumber(n) == [t |-> "number", v |-> n]

\* json.dump of one value
EncodeValue(x) ==
    CASE x.t = "int" -> JNumber(x.v)
      [] x.t = "str" -> [t |-> "string", v |-> x.v]
      [] x.t = "bool" -> [t |-> IF x.v = 1 THEN "true" ELSE "false", v |-> 0]
      [] x.t = "None" -> [t |-> "null", v |-> 0]
      [] x.t = "list" -> [t |-> "array", v |-> x.v]
      [] OTHER -> Missing

\* json.load of one value
DecodeValue(j) ==
    CASE j.t = "number" -> PyInt(j.v)
      [] j.t = "string" -> PyStr(j.v)
      [] j.t = "true" -> PyBool(TRUE)
      [] j.t = "false" -> PyBool(FALSE)
      [] j.t = "null" -> PyNone
      [] j.t = "array" -> PyList
      [] OTHER -> Missing

NoData == [k \in AllKeys |-> Missing]

\* _default_config()
Defaults ==
    [k \in AllKeys |->
        CASE k = "ram_gb" -> PyInt(4)
          [] k = "current_version" -> PyNone
          [] k = "auto_backup" -> PyBool(TRUE)
          [] OTHER -> Missing]

AbsentFile == [kind |-> "absent", top |-> "none", m |-> NoData]

\* json.dump(self.data, f, indent=2) into the file opened with 'w'
Dump(data) ==
    [kind |-> "json", top |-> "object",
     m |-> [k \in AllKeys |-> EncodeValue(data[k])]]

\* json.load(f) of a file that holds an object
Parse(file) == [k \in AllKeys |-> DecodeValue(file.m[k])]

\* faulty variant: the defaults overwrite what the file holds
UpdateDefaultsFirst(defaults, data) ==
    [k \in AllKeys |-> IF defaults[k] # Missing THEN defaults[k] ELSE data[k]]

\* defaults.update(data)
Update(defaults, data) ==
    [k \in AllKeys |-> IF data[k] # Missing THEN data[k] ELSE defaults[k]]

\* dict.update takes a mapping or an iterable of pairs: an empty array adds
\* nothing, a number, null, a non-empty string or an array of scalars raises
\* TypeError or ValueError
UpdateRaises(top) == top \in {"number", "null", "string", "array"}

\* except (json.JSONDecodeError, IOError): neither TypeError nor ValueError
Load(file) ==
    CASE file.kind = "absent" -> [ok |-> TRUE, data |-> Defaults]
      [] file.kind = "garbage" -> [ok |-> TRUE, data |-> Defaults]
      [] file.kind = "json" /\ file.top = "object" ->
            [ok |-> TRUE, data |-> Update(Defaults, Parse(file))]
      [] file.kind = "json" /\ file.top # "object" /\ UpdateRaises(file.top) ->
            [ok |-> FALSE, data |-> NoData]
      [] OTHER -> [ok |-> TRUE, data |-> Defaults]

\* Config(server_dir): a new object is constructed over the same directory
ConfigNew ==
    /\ pc = "idle"
    /\ cfgState' = IF Load(cfgFile).ok THEN "fresh" ELSE "raised"
    /\ cfgData' = Load(cfgFile).data
    /\ UNCHANGED <<envVars, histVars, polls, status, backupVars, installVars,
                   consoleVars, lateVars, pc, op, arg,
                   result, trace, cfgFile, expected, setKeys>>

\* set(key, value): self.data[key] = value; self.save()
ConfigSet(key, value) ==
    /\ pc = "idle"
    /\ cfgState \in {"fresh", "set"}
    /\ cfgState' = "set"
    /\ cfgData' = [cfgData EXCEPT ![key] = value]
    /\ cfgFile' = Dump(cfgData')
    /\ expected' = [expected EXCEPT ![key] = value]
    /\ setKeys' = setKeys \cup {key}
    /\ UNCHANGED <<envVars, histVars, polls, status, backupVars, installVars,
                   consoleVars, lateVars, pc, op, arg,
                   result, trace>>

\* the configuration side of a run that does not touch the configuration
NoConfigActivity ==
    /\ cfgFile = AbsentFile
    /\ cfgState = "none"
    /\ cfgData = NoData
    /\ expected = Defaults
    /\ setKeys = {}

(***************************************************************************)
(* Installation: TUI.handle_install, MinecraftServer.install and           *)
(* install_paper, TUI.handle_version_change, and the RAM and auto-backup   *)
(* entries of TUI.handle_settings.  A version is 1 or 2; current_version   *)
(* None is 0.                                                              *)
(***************************************************************************)
NoReq == [ver |-> 0, ram |-> 0, paper |-> FALSE, auto |-> FALSE]

InstallRecord == [ver |-> curVersion, ram |-> ramGb, type |-> serverType]

\* values typed at the RAM prompts
RamInputs == {0, 1, 64, 65}

\* faulty variant: no upper limit
RamAcceptedNoUpper(r) == r >= 1

\* if ram_gb < 1 or ram_gb > 64: raise ValueError()  /  if 1 <= ram <= 64
RamAccepted(r) == ~(r < 1 \/ r > 64)

\* faulty variant: the record is written before the download is known to succeed
RecordAfterInstallEarly(rec, r, downloaded) ==
    [ver |-> r.ver, ram |-> r.ram,
     type |-> IF r.paper THEN "paper" ELSE "vanilla"]

\* the three config.set calls that end install and install_paper, reached
\* only when the jar was downloaded
RecordAfterInstall(rec, r, downloaded) ==
    IF downloaded
    THEN [ver |-> r.ver, ram |-> r.ram,
          type |-> IF r.paper THEN "paper" ELSE "vanilla"]
    ELSE rec

\* faulty variant: the archive is named after the version being installed
BackupVersionSelected(current, selected) == selected

\* version = self.config.get("current_version", "unknown"), read by
\* create_backup before install has set the new one
BackupVersion(current, selected) == current

\* what no step of an installation touches
installFrame == <<screenBin, log, written, histVars, polls, status, configVars, lateVars,
                  consoleVars, worlds, clock, maxBackups, before, prePrune,
                  madeCount>>

\* handle_install: a server type is chosen from the menu
InstallCall(paper) ==
    /\ pc = "idle"
    /\ pc' = "install_fetch"
    /\ op' = "install"
    /\ arg' = 0
    /\ result' = Pending
    /\ trace' = <<>>
    /\ req' = [NoReq EXCEPT !.paper = paper]
    /\ recBefore' = InstallRecord
    /\ UNCHANGED <<installFrame, session, jar, backupDir, archives, curVersion,
                   target, ramGb, serverType, autoBackup>>

\* fetch_paper_versions / fetch_versions(100): an empty list ends the handler
InstallFetch ==
    /\ pc = "install_fetch"
    /\ \E fetched \in BOOLEAN :
        /\ pc' = IF fetched THEN "install_pick" ELSE "idle"
        /\ result' = IF fetched THEN result ELSE Fail("FetchFailed")
        /\ trace' = Append(trace, IF fetched THEN "fetch" ELSE "fetch_fail")
    /\ UNCHANGED <<installFrame, session, jar, backupDir, archives, curVersion,
                   target, ramGb, serverType, autoBackup, op, arg, req,
                   recBefore>>

\* show_version_picker: a version, or None when the user leaves the picker
InstallPick ==
    /\ pc = "install_pick"
    /\ \E v \in Versions \cup {0} :
        /\ pc' = IF v = 0 THEN "idle" ELSE "install_ram"
        /\ result' = IF v = 0 THEN Fail("Cancelled") ELSE result
        /\ req' = [req EXCEPT !.ver = v]
    /\ UNCHANGED <<installFrame, session, jar, backupDir, archives, curVersion,
                   target, ramGb, serverType, autoBackup, op, arg, trace,
                   recBefore>>

\* get_input("RAM (GB)"), int(ram_str) and the range test
InstallRam ==
    /\ pc = "install_ram"
    /\ \E parsed \in BOOLEAN, r \in RamInputs :
        /\ arg' = r
        /\ trace' = Append(trace, IF parsed THEN "ram" ELSE "ram_unparsed")
        /\ IF parsed /\ RamAccepted(r)
           THEN /\ pc' = "install_confirm"
                /\ req' = [req EXCEPT !.ram = r]
                /\ result' = result
           ELSE /\ pc' = "idle"
                /\ req' = req
                /\ result' = Fail("InvalidRam")
    /\ UNCHANGED <<installFrame, session, jar, backupDir, archives, curVersion,
                   target, ramGb, serverType, autoBackup, op, recBefore>>

\* show_menu("Confirm Installation")
InstallConfirm ==
    /\ pc = "install_confirm"
    /\ \E yes \in BOOLEAN :
        /\ pc' = IF yes THEN "install_url" ELSE "idle"
        /\ result' = IF yes THEN result ELSE Fail("Cancelled")
    /\ UNCHANGED <<installFrame, session, jar, backupDir, archives, curVersion,
                   target, ramGb, serverType, autoBackup, op, arg, trace, req,
                   recBefore>>

\* install / install_paper up to the download URL: get_server_jar_url, or
\* get_paper_build and get_paper_jar_url
InstallUrl ==
    /\ pc = "install_url"
    /\ \E resolved \in BOOLEAN :
        /\ pc' = IF resolved THEN "install_download" ELSE "idle"
        /\ result' = IF resolved THEN result ELSE Fail("UrlUnresolved")
        /\ trace' = Append(trace, IF resolved THEN "url" ELSE "url_fail")
    /\ UNCHANGED <<installFrame, session, jar, backupDir, archives, curVersion,
                   target, ramGb, serverType, autoBackup, op, arg, req,
                   recBefore>>

\* download_file to server.jar, then eula.txt and the three config.set; a
\* download that fails may already have created the file
InstallDownload ==
    /\ pc = "install_download"
    /\ pc' = "idle"
    /\ \E downloaded \in BOOLEAN, created \in BOOLEAN :
        LET rec == RecordAfterInstall(InstallRecord, req, downloaded)
        IN  /\ jar' = (jar \/ downloaded \/ created)
            /\ trace' = Append(trace, IF downloaded THEN "download"
                                      ELSE "download_fail")
            /\ curVersion' = rec.ver
            /\ ramGb' = rec.ram
            /\ serverType' = rec.type
            /\ result' = IF downloaded THEN Ok("Installed")
                         ELSE Fail("DownloadFailed")
    /\ UNCHANGED <<installFrame, session, backupDir, archives, target,
                   autoBackup, op, arg, req, recBefore>>

\* handle_version_change is chosen from the menu
SwitchCall ==
    /\ pc = "idle"
    /\ pc' = "switch_fetch"
    /\ op' = "switch"
    /\ arg' = 0
    /\ result' = Pending
    /\ trace' = <<>>
    /\ req' = NoReq
    /\ recBefore' = InstallRecord
    /\ UNCHANGED <<installFrame, session, jar, backupDir, archives, curVersion,
                   target, ramGb, serverType, autoBackup>>

\* fetch_versions(100)
SwitchFetch ==
    /\ pc = "switch_fetch"
    /\ \E fetched \in BOOLEAN :
        /\ pc' = IF fetched THEN "switch_pick" ELSE "idle"
        /\ result' = IF fetched THEN result ELSE Fail("FetchFailed")
        /\ trace' = Append(trace, IF fetched THEN "fetch" ELSE "fetch_fail")
    /\ UNCHANGED <<installFrame, session, jar, backupDir, archives, curVersion,
                   target, ramGb, serverType, autoBackup, op, arg, req,
                   recBefore>>

\* the picker, the test for the current version, the reading of
\* auto_backup and the confirmation menu
SwitchPick ==
    /\ pc = "switch_pick"
    /\ \E v \in Versions \cup {0}, yes \in BOOLEAN :
        /\ req' = [req EXCEPT !.ver = v, !.auto = autoBackup]
        /\ IF v = 0 THEN pc' = "idle" /\ result' = Fail("Cancelled")
           ELSE IF v = curVersion
                THEN pc' = "idle" /\ result' = Fail("AlreadyOnVersion")
           ELSE IF ~yes THEN pc' = "idle" /\ result' = Fail("Cancelled")
           ELSE pc' = "switch_stop" /\ result' = result
    /\ UNCHANGED <<installFrame, session, jar, backupDir, archives, curVersion,
                   target, ramGb, serverType, autoBackup, op, arg, trace,
                   recBefore>>

\* if self.server.is_running(): self.server.stop(graceful=True);
\* time.sleep(2).  What stop returns is not looked at: the session may be
\* gone or still there afterwards.
SwitchStop ==
    /\ pc = "switch_stop"
    /\ pc' = IF req.auto THEN "switch_backup" ELSE "switch_ram"
    /\ IF IsRunning
       THEN \E gone \in BOOLEAN :
                /\ session' = ~gone
                /\ trace' = Append(trace, IF gone THEN "stop" ELSE "stop_fail")
       ELSE UNCHANGED <<session, trace>>
    /\ UNCHANGED <<installFrame, jar, backupDir, archives, curVersion, target,
                   ramGb, serverType, autoBackup, op, arg, result, req,
                   recBefore>>

\* self.backup.create_backup(), as BackupScan, BackupWrite and BackupPrune
\* do it, and the test of what it returned
SwitchBackup ==
    /\ pc = "switch_backup"
    /\ IF BackupPossible(worlds)
       THEN \E outcome \in {"complete", "partial", "none"} :
            LET name == BackupName(BackupVersion(curVersion, req.ver), clock)
                files == FilesAfterWrite(archives, name, clock, outcome)
            IN  /\ backupDir' = TRUE
                /\ target' = name
                /\ archives' = IF PruneAfter(outcome)
                               THEN Kept(files, maxBackups) ELSE files
                /\ trace' = Append(trace, IF outcome = "complete"
                                          THEN "backup" ELSE "backup_fail")
                /\ pc' = IF outcome = "complete" THEN "switch_ram"
                         ELSE "switch_continue"
       ELSE /\ trace' = Append(trace, "backup_fail")
            /\ pc' = "switch_continue"
            /\ UNCHANGED <<backupDir, target, archives>>
    /\ UNCHANGED <<installFrame, session, jar, curVersion, ramGb, serverType,
                   autoBackup, op, arg, result, req, recBefore>>

\* show_menu("Continue?") after a backup that failed
SwitchContinue ==
    /\ pc = "switch_continue"
    /\ \E yes \in BOOLEAN :
        /\ pc' = IF yes THEN "switch_ram" ELSE "idle"
        /\ result' = IF yes THEN result ELSE Fail("Cancelled")
        /\ trace' = Append(trace, IF yes THEN "continue" ELSE "cancel")
    /\ UNCHANGED <<installFrame, session, jar, backupDir, archives, curVersion,
                   target, ramGb, serverType, autoBackup, op, arg, req,
                   recBefore>>

\* ram = self.config.get("ram_gb", 4), then self.server.install(...)
SwitchRam ==
    /\ pc = "switch_ram"
    /\ pc' = "install_url"
    /\ req' = [req EXCEPT !.ram = ramGb]
    /\ UNCHANGED <<installFrame, session, jar, backupDir, archives, curVersion,
                   target, ramGb, serverType, autoBackup, op, arg, result,
                   trace, recBefore>>

\* handle_settings, "Default RAM" is chosen from the menu
SettingsRamCall ==
    /\ pc = "idle"
    /\ pc' = "settings_ram"
    /\ op' = "set_ram"
    /\ arg' = 0
    /\ result' = Pending
    /\ trace' = <<>>
    /\ recBefore' = InstallRecord
    /\ UNCHANGED <<installFrame, session, jar, backupDir, archives, curVersion,
                   target, ramGb, serverType, autoBackup, req>>

\* get_input("Default RAM (GB)"), int(new_ram) and the range test; the
\* handler shows nothing, result tells whether config.set was called
SettingsRam ==
    /\ pc = "settings_ram"
    /\ pc' = "idle"
    /\ \E parsed \in BOOLEAN, r \in RamInputs :
        /\ arg' = r
        /\ trace' = Append(trace, IF parsed THEN "ram" ELSE "ram_unparsed")
        /\ ramGb' = IF parsed /\ RamAccepted(r) THEN r ELSE ramGb
        /\ result' = IF parsed /\ RamAccepted(r) THEN Ok("RamSet")
                     ELSE Fail("InvalidRam")
    /\ UNCHANGED <<installFrame, session, jar, backupDir, archives, curVersion,
                   target, serverType, autoBackup, op, req, recBefore>>

\* handle_settings, "Auto-backup on version change"
ToggleAutoBackup ==
    /\ pc = "idle"
    /\ autoBackup' = ~autoBackup
    /\ UNCHANGED <<installFrame, session, jar, backupDir, archives, curVersion,
                   target, ramGb, serverType, pc, op, arg, result, trace, req,
                   recBefore>>

\* the installation side of a run that installs nothing
NoInstallActivity ==
    /\ ramGb = DefaultRam
    /\ serverType = "vanilla"
    /\ autoBackup = TRUE
    /\ req = NoReq
    /\ recBefore = [ver |-> 1, ram |-> DefaultRam, type |-> "vanilla"]

(***************************************************************************)
(* TUI.handle_console.  The command buffer is a sequence of characters; a  *)
(* loop iteration is the redraw (ConsoleDraw: the log is read, the session *)
(* is queried) followed by getch and the branch of the key it returned.    *)
(* The locals of handle_console are reset when it returns.                 *)
(***************************************************************************)
\* visible_lines = box_h - 7, for a terminal of 12 rows
VisibleLines == 1

\* the characters typed: the toggle key and one other printable character
ToggleChar == "a"
Chars == {ToggleChar, " "}

Max0(n) == IF n > 0 THEN n ELSE 0
Min(m, n) == IF m < n THEN m ELSE n

RECURSIVE LStrip(_)
LStrip(b) == IF b # <<>> /\ Head(b) = " " THEN LStrip(Tail(b)) ELSE b

RECURSIVE RStrip(_)
RStrip(b) ==
    IF b # <<>> /\ b[Len(b)] = " " THEN RStrip(SubSeq(b, 1, Len(b) - 1)) ELSE b

\* command_buffer.strip()
Strip(b) == RStrip(LStrip(b))

\* faulty variant: the character is put at the end of the buffer
InsertAtEnd(b, pos, c) == Append(b, c)

\* command_buffer[:cursor_pos] + chr(key) + command_buffer[cursor_pos:]
InsertAt(b, pos, c) == SubSeq(b, 1, pos) \o <<c>> \o SubSeq(b, pos + 1, Len(b))

\* command_buffer[:cursor_pos-1] + command_buffer[cursor_pos:]
DeleteBefore(b, pos) == SubSeq(b, 1, pos - 1) \o SubSeq(b, pos + 1, Len(b))

\* if command_buffer.strip():
EnterActs(b) == Strip(b) # <<>>

\* faulty variant: the command is dispatched whatever the status shown
DispatchAlways(seen) == TRUE

\* if running: self.server.send_command(...)
Dispatch(seen) == seen

\* faulty variant: Down at the newest entry stays on it
NewerIndexStays(idx) == IF idx > 0 THEN idx - 1 ELSE idx

\* KEY_DOWN: history_idx after the key
NewerIndex(idx) == IF idx > 0 THEN idx - 1 ELSE -1

\* KEY_UP: history_idx after the key
OlderIndex(idx, hist) ==
    IF hist # <<>> /\ idx < Len(hist) - 1 THEN idx + 1 ELSE idx

\* the buffer that goes with a history index: history[history_idx], or
\* the empty buffer once the index is back at -1
Recalled(idx, hist) == IF idx >= 0 THEN hist[idx + 1] ELSE <<>>

\* faulty variant: auto-scroll comes back on with every PageDown
PageDownAutoAlways(auto, off, n) == TRUE

\* if scroll_offset >= len(lines) - visible_lines: auto_scroll = True
PageDownAuto(auto, off, n) ==
    IF off >= n - VisibleLines THEN TRUE ELSE auto

\* faulty variant: input mode is restored after the loop, not in a finally block
ModeAfterExitNoFinally(how) ==
    IF how = "escape" THEN "blocking" ELSE "nonblocking"

\* finally: self.stdscr.nodelay(False); self.stdscr.timeout(-1)
ModeAfterExit(how) == "blocking"

\* what no step of the console touches
consoleFrame == <<screenBin, jar, log, written, history0, polls, status,
                  backupVars, configVars, lateVars, installVars, op, arg, session>>

histLocals == <<chist, aliased, history, stored, sent>>

\* handle_console returns or is left by an exception: its locals are gone
LocalsGone ==
    /\ cbuf' = <<>>
    /\ cursorPos' = 0
    /\ historyIdx' = -1
    /\ autoScroll' = TRUE
    /\ scrollOffset' = 0
    /\ chist' = <<>>
    /\ aliased' = FALSE
    /\ nlines' = 0
    /\ seenRunning' = FALSE

\* handle_console is entered: the locals are set, history is bound to the
\* list config.get returns, input becomes non-blocking
ConsoleOpen ==
    /\ pc = "idle"
    /\ pc' = "console_draw"
    /\ op' = "console"
    /\ arg' = 0
    /\ result' = Pending
    /\ trace' = <<>>
    /\ inputMode' = "nonblocking"
    /\ cbuf' = <<>>
    /\ cursorPos' = 0
    /\ historyIdx' = -1
    /\ autoScroll' = TRUE
    /\ scrollOffset' = 0
    /\ chist' = history
    /\ aliased' = TRUE
    /\ nlines' = 0
    /\ seenRunning' = FALSE
    /\ lastKey' = "none"
    /\ UNCHANGED <<screenBin, jar, log, written, histVars, polls, status,
                   backupVars, configVars, lateVars, installVars, session>>

\* faulty variant: the window is not moved when the log is read
DrawOffsetKept(auto, off, n) == off

\* if auto_scroll: scroll_offset = max(0, len(lines) - visible_lines)
DrawOffset(auto, off, n) == IF auto THEN Max0(n - VisibleLines) ELSE off

\* the top of the loop: the log is read, the window is pinned to its end
\* under auto-scroll, is_running is queried and the screen is drawn
ConsoleDraw ==
    /\ pc = "console_draw"
    /\ pc' = "console_key"
    /\ nlines' = IF log.exists THEN Len(log.lines) ELSE 0
    /\ scrollOffset' = DrawOffset(autoScroll, scrollOffset, nlines')
    /\ seenRunning' = IsRunning
    /\ lastKey' = "none"
    /\ UNCHANGED <<consoleFrame, histLocals, inputMode, cbuf, cursorPos,
                   historyIdx, autoScroll, result, trace>>

\* an exception leaves the loop body (curses.error out of addstr, say);
\* the finally block runs and the exception leaves handle_console
ConsoleRaise ==
    /\ pc \in {"console_draw", "console_key"}
    /\ pc' = "idle"
    /\ result' = Fail("Raised")
    /\ trace' = <<"exception">>
    /\ inputMode' = ModeAfterExit("exception")
    /\ lastKey' = "none"
    /\ LocalsGone
    /\ UNCHANGED <<consoleFrame, history, stored, sent>>

\* key == 27: break, then the finally block
KeyEscape ==
    /\ pc = "console_key"
    /\ pc' = "idle"
    /\ lastKey' = "esc"
    /\ result' = Ok("ConsoleClosed")
    /\ trace' = <<>>
    /\ inputMode' = ModeAfterExit("escape")
    /\ LocalsGone
    /\ UNCHANGED <<consoleFrame, history, stored, sent>>

\* a key other than Escape was read: the loop goes on
KeyRead(k) ==
    /\ pc = "console_key"
    /\ pc' = "console_draw"
    /\ lastKey' = k
    /\ UNCHANGED <<consoleFrame, inputMode, nlines, seenRunning, result>>

\* getch() returned -1 after 200 ms
KeyTimeout ==
    /\ KeyRead("timeout")
    /\ trace' = <<>>
    /\ UNCHANGED <<histLocals, cbuf, cursorPos, historyIdx, autoScroll,
                   scrollOffset>>

BufferCleared ==
    /\ cbuf' = <<>>
    /\ cursorPos' = 0
    /\ historyIdx' = -1
    /\ autoScroll' = TRUE

\* KEY_ENTER, 10, 13.  send_command is the whole of SendCheck and
\* SendStuff; a save that fails inside it raises through the loop.
KeyEnter ==
    /\ pc = "console_key"
    /\ lastKey' = "enter"
    /\ Len(sent) < MaxSends
    /\ UNCHANGED <<consoleFrame, nlines, seenRunning, scrollOffset>>
    /\ IF ~EnterActs(cbuf)
       THEN /\ pc' = "console_draw"
            /\ trace' = <<>>
            /\ UNCHANGED <<histLocals, cbuf, cursorPos, historyIdx, autoScroll,
                           inputMode, result>>
       ELSE IF ~Dispatch(seenRunning)
       THEN /\ pc' = "console_draw"
            /\ trace' = <<>>
            /\ BufferCleared
            /\ UNCHANGED <<histLocals, inputMode, result>>
       ELSE IF ~SendAllowed(IsRunning)
       THEN /\ pc' = "console_draw"
            /\ trace' = <<"send_call", LsEvent(IsRunning)>>
            /\ BufferCleared
            /\ UNCHANGED <<histLocals, inputMode, result>>
       ELSE \E injected \in BOOLEAN, saved \in BOOLEAN :
            LET cmd == Strip(cbuf)
                needsSave == injected /\ ~Contains(history, cmd)
            IN  /\ trace' = <<"send_call", LsEvent(IsRunning),
                              IF injected THEN "stuff" ELSE "stuff_fail">>
                /\ sent' = IF injected THEN Append(sent, cmd) ELSE sent
                /\ history' = HistoryAfterStuff(history, cmd, injected)
                /\ stored' = IF needsSave /\ saved THEN history' ELSE stored
                /\ IF needsSave /\ ~saved
                   THEN /\ pc' = "idle"
                        /\ result' = Fail("Raised")
                        /\ inputMode' = ModeAfterExit("exception")
                        /\ cbuf' = <<>>
                        /\ cursorPos' = 0
                        /\ historyIdx' = -1
                        /\ autoScroll' = TRUE
                        /\ chist' = <<>>
                        /\ aliased' = FALSE
                   ELSE /\ pc' = "console_draw"
                        /\ BufferCleared
                        /\ chist' = IF aliased /\ needsSave
                                    THEN <<cmd>> \o chist ELSE chist
                        /\ aliased' = (aliased /\ ~needsSave)
                        /\ UNCHANGED <<inputMode, result>>

\* KEY_UP
KeyUp ==
    /\ KeyRead("up")
    /\ trace' = <<>>
    /\ historyIdx' = OlderIndex(historyIdx, chist)
    /\ IF historyIdx' # historyIdx
       THEN cbuf' = Recalled(historyIdx', chist) /\ cursorPos' = Len(cbuf')
       ELSE UNCHANGED <<cbuf, cursorPos>>
    /\ UNCHANGED <<histLocals, autoScroll, scrollOffset>>

\* KEY_DOWN
KeyDown ==
    /\ KeyRead("down")
    /\ trace' = <<>>
    /\ IF historyIdx >= 0
       THEN /\ historyIdx' = NewerIndex(historyIdx)
            /\ cbuf' = Recalled(historyIdx', chist)
            /\ cursorPos' = Len(cbuf')
       ELSE UNCHANGED <<historyIdx, cbuf, cursorPos>>
    /\ UNCHANGED <<histLocals, autoScroll, scrollOffset>>

\* KEY_BACKSPACE, 127, 8
KeyBackspace ==
    /\ KeyRead("backspace")
    /\ trace' = <<>>
    /\ IF cursorPos > 0
       THEN cbuf' = DeleteBefore(cbuf, cursorPos) /\ cursorPos' = cursorPos - 1
       ELSE UNCHANGED <<cbuf, cursorPos>>
    /\ UNCHANGED <<histLocals, historyIdx, autoScroll, scrollOffset>>

\* KEY_LEFT
KeyLeft ==
    /\ KeyRead("left")
    /\ trace' = <<>>
    /\ cursorPos' = IF cursorPos > 0 THEN cursorPos - 1 ELSE cursorPos
    /\ UNCHANGED <<histLocals, cbuf, historyIdx, autoScroll, scrollOffset>>

\* faulty variant: Right moves the cursor wherever it is
CursorRightUnbounded(pos, b) == pos + 1

\* if cursor_pos < len(command_buffer): cursor_pos += 1
CursorRight(pos, b) == IF pos < Len(b) THEN pos + 1 ELSE pos

\* KEY_RIGHT
KeyRight ==
    /\ KeyRead("right")
    /\ trace' = <<>>
    /\ cursorPos' = CursorRight(cursorPos, cbuf)
    /\ UNCHANGED <<histLocals, cbuf, historyIdx, autoScroll, scrollOffset>>

\* KEY_PPAGE
KeyPageUp ==
    /\ KeyRead("pgup")
    /\ trace' = <<>>
    /\ autoScroll' = FALSE
    /\ scrollOffset' = Max0(scrollOffset - VisibleLines)
    /\ UNCHANGED <<histLocals, cbuf, cursorPos, historyIdx>>

\* KEY_NPAGE
KeyPageDown ==
    /\ KeyRead("pgdn")
    /\ trace' = <<>>
    /\ scrollOffset' = Min(Max0(nlines - VisibleLines),
                           scrollOffset + VisibleLines)
    /\ autoScroll' = PageDownAuto(autoScroll, scrollOffset', nlines)
    /\ UNCHANGED <<histLocals, cbuf, cursorPos, historyIdx>>

\* ord('a') or ord('A'): the toggle with an empty buffer, text otherwise
KeyToggle ==
    /\ KeyRead(ToggleChar)
    /\ trace' = <<>>
    /\ IF cbuf = <<>>
       THEN /\ autoScroll' = ~autoScroll
            /\ UNCHANGED <<cbuf, cursorPos>>
       ELSE /\ Len(cbuf) < MaxBuf
            /\ cbuf' = InsertAt(cbuf, cursorPos, ToggleChar)
            /\ cursorPos' = cursorPos + 1
            /\ autoScroll' = autoScroll
    /\ UNCHANGED <<histLocals, historyIdx, scrollOffset>>

\* 32 <= key <= 126, the toggle key apart
KeyPrintable(c) ==
    /\ KeyRead(c)
    /\ Len(cbuf) < MaxBuf
    /\ trace' = <<>>
    /\ cbuf' = InsertAt(cbuf, cursorPos, c)
    /\ cursorPos' = cursorPos + 1
    /\ historyIdx' = -1
    /\ UNCHANGED <<histLocals, autoScroll, scrollOffset>>

\* no listing was asked for, no second invocation runs, nothing was launched
NoLateActivity ==
    /\ listing = <<>>
    /\ historyB = <<>>
    /\ persisted = {}
    /\ launchLen = 0

\* the console side of a run in which the console is not opened
NoConsoleActivity ==
    /\ inputMode = "blocking"
    /\ cbuf = <<>>
    /\ cursorPos = 0
    /\ historyIdx = -1
    /\ autoScroll = TRUE
    /\ scrollOffset = 0
    /\ chist = <<>>
    /\ aliased = FALSE
    /\ nlines = 0
    /\ seenRunning = FALSE
    /\ lastKey = "none"

(***************************************************************************)
(* Environment                                                             *)
(***************************************************************************)
\* the server process ends (stop command obeyed, crash, external kill)
SessionExits ==
    /\ session
    /\ session' = FALSE
    /\ UNCHANGED <<otherVars, screenBin, jar, log, written, histVars, pc, op, arg, polls,
                   result, trace>>

\* a session of that name is started outside this invocation
SessionAppears ==
    /\ ~session
    /\ session' = TRUE
    /\ UNCHANGED <<otherVars, screenBin, jar, log, written, histVars, pc, op, arg, polls,
                   result, trace>>

\* screen is installed or removed between two operations
ScreenBinChanges ==
    /\ pc = "idle"
    /\ screenBin' = ~screenBin
    /\ UNCHANGED <<otherVars, session, jar, log, written, histVars, pc, op, arg, polls,
                   result, trace>>

\* tee -a creates server.log when the launched pipeline starts
LogCreated ==
    /\ session
    /\ ~log.exists
    /\ log' = [exists |-> TRUE, lines |-> <<>>]
    /\ UNCHANGED <<otherVars, session, screenBin, jar, written, histVars, pc, op, arg,
                   polls, result, trace>>

\* the server process writes a line, blank or not, to server.log
LogAppend(line) ==
    /\ session
    /\ written < MaxLogWrites
    /\ log' = [exists |-> TRUE, lines |-> Append(log.lines, line)]
    /\ written' = written + 1
    /\ UNCHANGED <<otherVars, session, screenBin, jar, histVars, pc, op, arg, polls,
                   result, trace>>

(***************************************************************************)
(* Histories a configuration file can hold at construction                 *)
(***************************************************************************)
FullHistory == [i \in 1..HistoryCap |-> 100 + i]

InitHistories == {<<>>, FullHistory, <<1>> \o SubSeq(FullHistory, 1, HistoryCap - 2)}

InitSend ==
    /\ session \in BOOLEAN
    /\ screenBin \in BOOLEAN
    /\ jar = TRUE
    /\ log = [exists |-> FALSE, lines |-> <<>>]
    /\ written = 0
    /\ history0 \in InitHistories
    /\ history = history0
    /\ stored = history0
    /\ sent = <<>>
    /\ pc = "idle"
    /\ op = "none"
    /\ arg = 0
    /\ polls = 0
    /\ result = Pending
    /\ trace = <<>>
    /\ status = NoStatus
    /\ NoBackupActivity
    /\ NoConfigActivity
    /\ NoInstallActivity
    /\ NoConsoleActivity
    /\ NoLateActivity

NextSend ==
    \/ \E c \in Commands : SendCall(c)
    \/ SendCheck
    \/ SendStuff
    \/ SessionExits
    \/ SessionAppears
    \/ ScreenBinChanges

SpecSend == InitSend /\ [][NextSend]_vars

(***************************************************************************)
(* Logs an earlier run can have left: none, an empty one, and one whose    *)
(* last 10 lines are blank                                                 *)
(***************************************************************************)
BlankTailLog == <<"text">> \o [i \in 1..TailLines |-> "blank"]

InitLogs == {[exists |-> FALSE, lines |-> <<>>],
             [exists |-> TRUE, lines |-> <<>>],
             [exists |-> TRUE, lines |-> BlankTailLog]}

InitLifecycle ==
    /\ session \in BOOLEAN
    /\ screenBin \in BOOLEAN
    /\ jar \in BOOLEAN
    /\ log \in InitLogs
    /\ written = 0
    /\ history0 = <<>>
    /\ history = history0
    /\ stored = history0
    /\ sent = <<>>
    /\ pc = "idle"
    /\ op = "none"
    /\ arg = 0
    /\ polls = 0
    /\ result = Pending
    /\ trace = <<>>
    /\ status = NoStatus
    /\ NoBackupActivity
    /\ NoConfigActivity
    /\ NoInstallActivity
    /\ NoConsoleActivity
    /\ NoLateActivity

NextLifecycle ==
    \/ StartCall
    \/ StartCheck
    \/ StartLaunch
    \/ StartSettle
    \/ StartRequery
    \/ \E graceful \in BOOLEAN : StopCall(graceful)
    \/ StopCheck
    \/ StopStuff
    \/ StopLoop
    \/ StopPoll
    \/ StopQuit
    \/ SessionExits
    \/ SessionAppears
    \/ ScreenBinChanges
    \/ LogCreated
    \/ \E line \in {"blank", "text"} : LogAppend(line)

SpecLifecycle == InitLifecycle /\ [][NextLifecycle]_vars

(***************************************************************************)
(* Backups.  Archives found at the start were made under another version:  *)
(* an old one, and one whose modification time lies ahead of the clock.    *)
(***************************************************************************)
OldArchive == [ver |-> 2, sec |-> 0, mtime |-> 0, partial |-> FALSE]

FutureArchive == [ver |-> 2, sec |-> 1, mtime |-> MaxClock + 1, partial |-> FALSE]

InitBackup ==
    /\ session = FALSE
    /\ screenBin = TRUE
    /\ jar = TRUE
    /\ log = [exists |-> FALSE, lines |-> <<>>]
    /\ written = 0
    /\ history0 = <<>>
    /\ history = history0
    /\ stored = history0
    /\ sent = <<>>
    /\ pc = "idle"
    /\ op = "none"
    /\ arg = 0
    /\ polls = 0
    /\ result = Pending
    /\ trace = <<>>
    /\ status = NoStatus
    /\ worlds \in SUBSET Worlds
    /\ archives \in SUBSET {OldArchive, FutureArchive}
    /\ backupDir = (archives # {})
    /\ clock = 1
    /\ curVersion = 1
    /\ maxBackups \in 1..MaxKeep
    /\ Cardinality(archives) <= maxBackups
    /\ target = NoTarget
    /\ before = [dir |-> backupDir, files |-> archives]
    /\ prePrune = {}
    /\ madeCount = 0
    /\ NoConfigActivity
    /\ NoInstallActivity
    /\ NoConsoleActivity
    /\ NoLateActivity

NextBackup ==
    \/ BackupCall
    \/ BackupScan
    \/ BackupWrite
    \/ BackupPrune
    \/ \E n \in 0..(MaxKeep + 1) : SetMaxBackups(n)
    \/ Tick
    \/ \E w \in Worlds : WorldChanges(w)

SpecBackup == InitBackup /\ [][NextBackup]_vars

(***************************************************************************)
(* Two invocations of the tool, A and B, on one server directory.  Each    *)
(* holds its own Config object, loaded from .mctool.json when it was       *)
(* started; history is A's command_history in memory, historyB is B's.     *)
(***************************************************************************)
Invocations == {"A", "B"}

MemoryOf(who) == IF who = "A" THEN history ELSE historyB

\* faulty variant: the entries of the file that memory lacks are kept
WrittenByMerging(memory, file) ==
    memory \o SelectSeq(file, LAMBDA c : ~Contains(memory, c))

\* Config.save: json.dump(self.data, f) over the file opened with 'w'; the
\* file afterwards holds what this object has in memory, whatever it held
Written(memory, file) == memory

\* send_command(c) of one invocation, the injection confirmed and the save
\* succeeding
SharedSend(who, c) ==
    /\ pc = "idle"
    /\ IsRunning
    /\ Len(sent) < MaxSends
    /\ op' = "shared_send"
    /\ arg' = c
    /\ trace' = <<who, "stuff">>
    /\ result' = Ok("CommandSent")
    /\ sent' = Append(sent, c)
    /\ LET memory == RecordCommand(MemoryOf(who), c)
           saves == ~Contains(MemoryOf(who), c)
       IN  /\ history' = IF who = "A" THEN memory ELSE history
           /\ historyB' = IF who = "B" THEN memory ELSE historyB
           /\ stored' = IF saves THEN Written(memory, stored) ELSE stored
           /\ persisted' = persisted \cup Range(stored')
    /\ UNCHANGED <<envVars, history0, pc, polls, status, backupVars, configVars,
                   installVars, consoleVars, listing, launchLen>>

\* one invocation is ended and the tool started again: Config._load
SharedRestart(who) ==
    /\ pc = "idle"
    /\ MemoryOf(who) # stored
    /\ op' = "shared_restart"
    /\ arg' = 0
    /\ trace' = <<who, "load">>
    /\ result' = Pending
    /\ history' = IF who = "A" THEN stored ELSE history
    /\ historyB' = IF who = "B" THEN stored ELSE historyB
    /\ UNCHANGED <<envVars, history0, stored, sent, pc, polls, status,
                   backupVars, configVars, installVars, consoleVars, listing,
                   persisted, launchLen>>

InitShared ==
    /\ session = TRUE
    /\ screenBin = TRUE
    /\ jar = TRUE
    /\ log = [exists |-> FALSE, lines |-> <<>>]
    /\ written = 0
    /\ history0 \in {<<>>, <<1>>}
    /\ history = history0
    /\ stored = history0
    /\ sent = <<>>
    /\ pc = "idle"
    /\ op = "none"
    /\ arg = 0
    /\ polls = 0
    /\ result = Pending
    /\ trace = <<>>
    /\ status = NoStatus
    /\ NoBackupActivity
    /\ NoConfigActivity
    /\ NoInstallActivity
    /\ NoConsoleActivity
    /\ listing = <<>>
    /\ historyB = history0
    /\ persisted = Range(history0)
    /\ launchLen = 0

NextShared ==
    \/ \E who \in Invocations, c \in Commands : SharedSend(who, c)
    \/ \E who \in Invocations : SharedRestart(who)

SpecShared == InitShared /\ [][NextShared]_vars

(***************************************************************************)
(* Listing the backups between create_backup calls                         *)
(***************************************************************************)
InitListing ==
    /\ InitBackup
    /\ worlds = Worlds
    /\ maxBackups = MaxKeep

NextListing ==
    \/ ListCall
    \/ ListReturn
    \/ BackupCall
    \/ BackupScan
    \/ BackupWrite
    \/ BackupPrune
    \/ Tick

SpecListing == InitListing /\ [][NextListing]_vars

(***************************************************************************)
(* Configuration.  The file found at the start is absent, unparsable, a    *)
(* JSON document that is not an object, or an object holding some keys.    *)
(***************************************************************************)
SetValues == {PyInt(8), PyStr(1), PyBool(FALSE), PyNone}

FoundObjects ==
    {[kind |-> "json", top |-> "object",
      m |-> [k \in AllKeys |-> IF k \in S THEN JNumber(32) ELSE Missing]] :
        S \in SUBSET AllKeys}

FoundFiles ==
    {AbsentFile, [kind |-> "garbage", top |-> "none", m |-> NoData]}
        \cup {[kind |-> "json", top |-> t, m |-> NoData] :
                t \in {"number", "null", "string", "array", "empty_array"}}
        \cup FoundObjects

InitConfig ==
    /\ session = FALSE
    /\ screenBin = TRUE
    /\ jar = TRUE
    /\ log = [exists |-> FALSE, lines |-> <<>>]
    /\ written = 0
    /\ history0 = <<>>
    /\ history = history0
    /\ stored = history0
    /\ sent = <<>>
    /\ pc = "idle"
    /\ op = "none"
    /\ arg = 0
    /\ polls = 0
    /\ result = Pending
    /\ trace = <<>>
    /\ status = NoStatus
    /\ NoBackupActivity
    /\ NoInstallActivity
    /\ NoConsoleActivity
    /\ NoLateActivity
    /\ cfgFile \in FoundFiles
    /\ cfgState = "none"
    /\ cfgData = NoData
    /\ expected = [k \in AllKeys |->
                    IF cfgFile.top = "object" /\ cfgFile.m[k] # Missing
                    THEN DecodeValue(cfgFile.m[k]) ELSE Defaults[k]]
    /\ setKeys = {}

NextConfig ==
    \/ ConfigNew
    \/ \E key \in AllKeys : \E value \in SetValues : ConfigSet(key, value)

SpecConfig == InitConfig /\ [][NextConfig]_vars

(***************************************************************************)
(* Installation and version change                                         *)
(***************************************************************************)
InitInstall ==
    /\ curVersion \in Versions \cup {0}
    /\ session \in BOOLEAN
    /\ screenBin = TRUE
    /\ jar = (curVersion # 0)
    /\ log = [exists |-> FALSE, lines |-> <<>>]
    /\ written = 0
    /\ history0 = <<>>
    /\ history = history0
    /\ stored = history0
    /\ sent = <<>>
    /\ pc = "idle"
    /\ op = "none"
    /\ arg = 0
    /\ polls = 0
    /\ result = Pending
    /\ trace = <<>>
    /\ status = NoStatus
    /\ worlds \in SUBSET Worlds
    /\ backupDir = FALSE
    /\ archives = {}
    /\ clock = 1
    /\ maxBackups = 1
    /\ target = NoTarget
    /\ before = [dir |-> FALSE, files |-> {}]
    /\ prePrune = {}
    /\ madeCount = 0
    /\ NoConfigActivity
    /\ NoConsoleActivity
    /\ NoLateActivity
    /\ ramGb = DefaultRam
    /\ serverType = "vanilla"
    /\ autoBackup \in BOOLEAN
    /\ req = NoReq
    /\ recBefore = InstallRecord

NextInstall ==
    \/ \E paper \in BOOLEAN : InstallCall(paper)
    \/ InstallFetch
    \/ InstallPick
    \/ InstallRam
    \/ InstallConfirm
    \/ InstallUrl
    \/ InstallDownload
    \/ SwitchCall
    \/ SwitchFetch
    \/ SwitchPick
    \/ SwitchStop
    \/ SwitchBackup
    \/ SwitchContinue
    \/ SwitchRam
    \/ SettingsRamCall
    \/ SettingsRam
    \/ ToggleAutoBackup

SpecInstall == InitInstall /\ [][NextInstall]_vars

(***************************************************************************)
(* The console: every key, over a log of two lines and a history that is   *)
(* empty or holds two commands                                             *)
(***************************************************************************)
ConsoleHistories == {<<>>, << <<"a", "a">>, <<"a">> >>}

InitConsole ==
    /\ session \in BOOLEAN
    /\ screenBin = TRUE
    /\ jar = TRUE
    /\ log = [exists |-> TRUE, lines |-> <<"text", "text">>]
    /\ written = 0
    /\ history0 \in ConsoleHistories
    /\ history = history0
    /\ stored = history0
    /\ sent = <<>>
    /\ pc = "idle"
    /\ op = "none"
    /\ arg = 0
    /\ polls = 0
    /\ result = Pending
    /\ trace = <<>>
    /\ status = NoStatus
    /\ NoBackupActivity
    /\ NoConfigActivity
    /\ NoInstallActivity
    /\ NoConsoleActivity
    /\ NoLateActivity

NextConsole ==
    \/ ConsoleOpen
    \/ ConsoleDraw
    \/ ConsoleRaise
    \/ KeyEscape
    \/ KeyTimeout
    \/ KeyEnter
    \/ KeyUp
    \/ KeyDown
    \/ KeyBackspace
    \/ KeyLeft
    \/ KeyRight
    \/ KeyPageUp
    \/ KeyPageDown
    \/ KeyToggle
    \/ \E c \in Chars \ {ToggleChar} : KeyPrintable(c)
    \/ SessionExits
    \/ SessionAppears

SpecConsole == InitConsole /\ [][NextConsole]_vars

(***************************************************************************)
(* The console's window over a growing log: the paging keys and the toggle *)
(***************************************************************************)
InitScroll ==
    /\ session = TRUE
    /\ screenBin = TRUE
    /\ jar = TRUE
    /\ log \in {[exists |-> FALSE, lines |-> <<>>],
                [exists |-> TRUE, lines |-> <<"text", "text">>]}
    /\ written = 0
    /\ history0 = <<>>
    /\ history = history0
    /\ stored = history0
    /\ sent = <<>>
    /\ pc = "idle"
    /\ op = "none"
    /\ arg = 0
    /\ polls = 0
    /\ result = Pending
    /\ trace = <<>>
    /\ status = NoStatus
    /\ NoBackupActivity
    /\ NoConfigActivity
    /\ NoInstallActivity
    /\ NoConsoleActivity
    /\ NoLateActivity

NextScroll ==
    \/ ConsoleOpen
    \/ ConsoleDraw
    \/ KeyEscape
    \/ KeyTimeout
    \/ KeyPageUp
    \/ KeyPageDown
    \/ KeyToggle
    \/ LogCreated
    \/ LogAppend("text")

SpecScroll == InitScroll /\ [][NextScroll]_vars

(***************************************************************************)
(* The supervisor as a whole: start, stop, send_command and get_status     *)
(* invoked in any order, the session and the screen binary changing        *)
(* outside the tool.                                                       *)
(***************************************************************************)
InitSupervisor ==
    /\ session \in BOOLEAN
    /\ screenBin \in BOOLEAN
    /\ jar \in BOOLEAN
    /\ log = [exists |-> TRUE, lines |-> <<>>]
    /\ written = 0
    /\ history0 = <<>>
    /\ history = history0
    /\ stored = history0
    /\ sent = <<>>
    /\ pc = "idle"
    /\ op = "none"
    /\ arg = 0
    /\ polls = 0
    /\ result = Pending
    /\ trace = <<>>
    /\ status = NoStatus
    /\ NoBackupActivity
    /\ NoConfigActivity
    /\ NoInstallActivity
    /\ NoConsoleActivity
    /\ NoLateActivity

NextSupervisor ==
    \/ StartCall
    \/ StartCheck
    \/ StartLaunch
    \/ StartSettle
    \/ StartRequery
    \/ \E graceful \in BOOLEAN : StopCall(graceful)
    \/ StopCheck
    \/ StopStuff
    \/ StopLoop
    \/ StopPoll
    \/ StopQuit
    \/ SendCall(1)
    \/ SendCheck
    \/ SendStuff
    \/ StatusCall
    \/ StatusCheck
    \/ SessionExits
    \/ SessionAppears
    \/ ScreenBinChanges

SpecSupervisor == InitSupervisor /\ [][NextSupervisor]_vars

(***************************************************************************)
(* Claims about send_command                                               *)
(***************************************************************************)
\* a program step that leaves position p
Leaves(p) == pc = p /\ pc' # p

AllSame(s) == \A i \in 1..Len(s) : s[i] = s[1]

\* C1: from a history without duplicates and of at most 20 entries, after
\* any sequence of send_command calls the history (in memory and as stored)
\* has no duplicate entries and at most 20 of them; a command sent any
\* number of times to an empty history leaves exactly that one entry.
C1_HistoryInvariant ==
    /\ NoDuplicates(history) /\ Len(history) <= HistoryCap
    /\ NoDuplicates(stored) /\ Len(stored) <= HistoryCap
    /\ (history0 = <<>> /\ sent # <<>> /\ AllSame(sent)) => history = <<sent[1]>>

\* the cap is reached and a command was sent twice
C1_Witness ==
    /\ history0 = FullHistory
    /\ Len(sent) = 3 /\ sent[1] = sent[2] /\ sent[3] # sent[1]
    /\ Len(history) = HistoryCap
    /\ history[1] = sent[3] /\ history[2] = sent[1]

\* C2: after every successful send_command(c), c is the first entry of the
\* history; when c was already present it is moved to the front, the length
\* does not grow and the other entries keep their relative order.
C2_MoveToFront ==
    [][(pc = "send_stuff" /\ result'.ok) =>
        /\ history'[1] = arg
        /\ Contains(history, arg) =>
            /\ Len(history') = Len(history)
            /\ Without(history', arg) = Without(history, arg)]_vars

\* C3: send_command invoked while the session does not exist returns
\* "Server is not running", injects nothing and leaves the history, in
\* memory and in the configuration file, unchanged.
C3_SendNotRunning ==
    /\ [][(Leaves("send_check") /\ ~IsRunning) =>
            /\ pc' = "idle"
            /\ result' = Fail("NotRunning")
            /\ trace' = <<"ls-">>
            /\ history' = history
            /\ stored' = stored]_vars
    /\ []((op = "send" /\ trace # <<>> /\ trace[1] = "ls-") =>
            /\ pc = "idle"
            /\ result = Fail("NotRunning")
            /\ trace = <<"ls-">>)

\* a rejected send with a history in place
C3_Witness ==
    /\ pc = "idle" /\ op = "send"
    /\ result = Fail("NotRunning")
    /\ trace = <<"ls-">>
    /\ sent # <<>>
    /\ history # <<>> /\ ~Contains(history, arg)

\* C4: when the session exists but the injection fails, send_command
\* returns a dispatch failure and the history is not updated: the history
\* holds a command only if it was loaded at construction or an injection
\* of it was confirmed.
C4_DispatchFailure ==
    /\ [][(Leaves("send_stuff") /\ trace' = Append(trace, "stuff_fail")) =>
            /\ result' = Fail("DispatchError")
            /\ history' = history
            /\ stored' = stored]_vars
    /\ [](Range(history) \cup Range(stored) \subseteq Range(history0) \cup Range(sent))
    /\ []((op = "send" /\ result.err = "DispatchError") =>
            /\ trace = <<"ls+", "stuff_fail">>
            /\ ~result.ok)

\* a failed injection of a command the history does not hold
C4_Witness ==
    /\ pc = "idle" /\ op = "send"
    /\ result = Fail("DispatchError")
    /\ trace = <<"ls+", "stuff_fail">>
    /\ ~Contains(history, arg)
    /\ sent # <<>>

(***************************************************************************)
(* Claims about start() and stop()                                         *)
(***************************************************************************)
LaunchEvents == {"launch", "launch_nonzero", "launch_nobin"}

NoLaunch == Range(trace) \cap LaunchEvents = {}

IsPrefix(s, t) == Len(s) <= Len(t) /\ SubSeq(t, 1, Len(s)) = s

\* C5: start() invoked while the session exists fails with "already
\* running" and launches nothing, whether or not server.jar is there: the
\* running check comes first and the jar is not even looked at.
C5_StartAlreadyRunning ==
    /\ [][(Leaves("start_check") /\ IsRunning) =>
            /\ pc' = "idle"
            /\ result' = Fail("AlreadyRunning")
            /\ trace' = <<"ls+">>]_vars
    /\ []((op = "start" /\ trace # <<>> /\ trace[1] = "ls+") =>
            /\ pc = "idle"
            /\ result = Fail("AlreadyRunning")
            /\ trace = <<"ls+">>)

\* start() refused as already running although server.jar is absent
C5_Witness ==
    /\ pc = "idle" /\ op = "start"
    /\ result = Fail("AlreadyRunning")
    /\ trace = <<"ls+">>
    /\ ~jar

\* C6: start() invoked while stopped with server.jar absent fails with
\* "not installed" and launches nothing.
C6_StartNotInstalled ==
    /\ [][(Leaves("start_check") /\ ~IsRunning /\ ~jar) =>
            /\ pc' = "idle"
            /\ result' = Fail("NotInstalled")
            /\ trace' = <<"ls-", "jar-">>]_vars
    /\ []((op = "start" /\ Len(trace) >= 2 /\ trace[2] = "jar-") =>
            /\ pc = "idle"
            /\ result = Fail("NotInstalled")
            /\ NoLaunch)

C6_Witness ==
    /\ pc = "idle" /\ op = "start"
    /\ result = Fail("NotInstalled")
    /\ trace = <<"ls-", "jar-">>
    /\ ~jar /\ ~session /\ screenBin

\* what start() has invoked once screen accepted the launch
AcceptedLaunchTrace(last) == <<"ls-", "jar+", "launch", "sleep", last>>

\* the shape C7 requires of every start() whose launch was accepted: one
\* settle wait, then one re-query, and success exactly on "ls+"
SettleAndRequeryOnce ==
    (op = "start" /\ Contains(trace, "launch")) =>
        /\ \E last \in {"ls+", "ls-"} : IsPrefix(trace, AcceptedLaunchTrace(last))
        /\ pc = "idle" =>
            /\ Len(trace) = 5
            /\ result.ok <=> trace[5] = "ls+"
            /\ result.err \in {"Started", "CrashedOnStart", "ExitedImmediately"}

\* C7, read literally: after an accepted launch start() waits, re-queries once
\* and succeeds iff the session exists then; otherwise it returns
\* CrashedOnStart with the last lines of the log when that tail is
\* non-empty, and ExitedImmediately when the log is absent or empty.
C7_CrashDetection ==
    /\ []SettleAndRequeryOnce
    /\ [][Leaves("start_requery") =>
            LET tail == LastN(log.lines, TailLines)
            IN  /\ result'.ok <=> IsRunning
                /\ (~IsRunning /\ log.exists /\ tail # <<>>) =>
                        result' = FailWithLog("CrashedOnStart", tail)
                /\ (~IsRunning /\ (~log.exists \/ log.lines = <<>>)) =>
                        result' = Fail("ExitedImmediately")]_vars

\* C7, with the tail tested as the code tests it: the tail counts when some line of it is more than
\* whitespace; a log that is absent, empty or whose last 10 lines are all
\* blank gives ExitedImmediately.
C7_CrashDetectionStripped ==
    /\ []SettleAndRequeryOnce
    /\ [][Leaves("start_requery") =>
            LET tail == LastN(log.lines, TailLines)
            IN  /\ result'.ok <=> IsRunning
                /\ (~IsRunning /\ log.exists /\ HasText(tail)) =>
                        result' = FailWithLog("CrashedOnStart", tail)
                /\ (~IsRunning /\ (~log.exists \/ ~HasText(tail))) =>
                        result' = Fail("ExitedImmediately")]_vars

\* a crash reported with the last 10 of 12 log lines
C7_Witness ==
    /\ pc = "idle" /\ op = "start"
    /\ result.err = "CrashedOnStart"
    /\ Len(log.lines) > TailLines
    /\ result.tail = LastN(log.lines, TailLines)
    /\ Len(result.tail) = TailLines
    /\ trace = AcceptedLaunchTrace("ls-")

\* C8: when the launch exits non-zero or the screen binary is missing,
\* start() returns a launch failure, neither waits nor re-queries, and
\* never reports success.
C8_LaunchFailed ==
    /\ [][(Leaves("start_launch") /\ ~Contains(trace', "launch")) =>
            /\ pc' = "idle"
            /\ result' \in {Fail("ScreenFailed"), Fail("ScreenNotFound")}
            /\ ~screenBin => result' = Fail("ScreenNotFound")]_vars
    /\ []((op = "start" /\ Range(trace) \cap {"launch_nonzero", "launch_nobin"} # {}) =>
            /\ pc = "idle"
            /\ ~result.ok
            /\ result.err = (IF Contains(trace, "launch_nobin")
                             THEN "ScreenNotFound" ELSE "ScreenFailed")
            /\ Len(trace) = 3
            /\ ~Contains(trace, "sleep")
            /\ Count(trace, "ls+") + Count(trace, "ls-") = 1)

\* a launch that screen refused with a non-zero return code
C8_Witness ==
    /\ pc = "idle" /\ op = "start"
    /\ result = Fail("ScreenFailed")
    /\ trace = <<"ls-", "jar+", "launch_nonzero">>

\* C9: stop(), graceful or forced, invoked while the session does not exist
\* fails with "not running" and sends neither the stop keystrokes nor quit.
C9_StopNotRunning ==
    /\ [][(Leaves("stop_check") /\ ~IsRunning) =>
            /\ pc' = "idle"
            /\ result' = Fail("NotRunning")
            /\ trace' = <<"ls-">>
            /\ session' = session]_vars
    /\ []((op \in {"stop_graceful", "stop_forced"} /\ trace # <<>> /\ trace[1] = "ls-") =>
            /\ pc = "idle"
            /\ result = Fail("NotRunning")
            /\ trace = <<"ls-">>)

\* a forced stop refused because nothing runs
C9_Witness ==
    /\ pc = "idle" /\ op = "stop_forced"
    /\ result = Fail("NotRunning")
    /\ trace = <<"ls-">>

RECURSIVE Repeat(_, _)
Repeat(s, n) == IF n = 0 THEN <<>> ELSE s \o Repeat(s, n - 1)

TimeoutTrace == <<"ls+", "stuff">> \o Repeat(<<"sleep", "ls+">>, StopPolls)

\* C10: a graceful stop() whose every poll finds the session makes exactly
\* 30 waits, each followed by one poll, and returns the timeout; it never
\* makes more than 30, it can always take its next step while in the loop,
\* and it never falls back to quit.
C10_GracefulStopTimeout ==
    /\ op = "stop_graceful" =>
        /\ ~Contains(trace, "quit") /\ ~Contains(trace, "quit_fail")
        /\ Count(trace, "sleep") <= StopPolls
        /\ polls <= StopPolls
        /\ IsPrefix(trace, TimeoutTrace) \/ (trace # <<>> /\ pc = "idle")
    /\ (op = "stop_graceful" /\ pc = "idle" /\ Contains(trace, "stuff")
            /\ ~Contains(trace, "ls-")) =>
        /\ result = Fail("StopTimeout")
        /\ trace = TimeoutTrace
    /\ result.err = "StopTimeout" =>
        /\ trace = TimeoutTrace
        /\ Count(trace, "sleep") = StopPolls
        /\ polls = StopPolls
    /\ pc \in {"stop_loop", "stop_poll"} => ENABLED (StopLoop \/ StopPoll)

\* the timeout with the session still there
C10_Witness ==
    /\ pc = "idle" /\ op = "stop_graceful"
    /\ result = Fail("StopTimeout")
    /\ Count(trace, "sleep") = StopPolls
    /\ session

\* the polls of a graceful stop: the ls events after the stop keystrokes
PollEvents == {i \in 3..Len(trace) : trace[i] \in {"ls+", "ls-"}}

\* C11: a graceful stop sends the stop keystrokes exactly once, before any
\* poll, and returns success at the first poll (of at most 30) that finds
\* the session gone, with no poll or wait after it.
C11_GracefulStopSuccess ==
    op = "stop_graceful" =>
        /\ Count(trace, "stuff") + Count(trace, "stuff_fail") <= 1
        /\ Len(trace) >= 3 => (trace[1] = "ls+" /\ trace[2] = "stuff")
        /\ Cardinality(PollEvents) <= StopPolls
        /\ Cardinality(PollEvents) = polls
        /\ \A i \in PollEvents :
            /\ trace[i - 1] = "sleep"
            /\ trace[i] = "ls-" =>
                /\ i = Len(trace)
                /\ pc = "idle"
                /\ result = Ok("StoppedGracefully")
        /\ result.ok =>
            /\ result = Ok("StoppedGracefully")
            /\ trace[Len(trace)] = "ls-"
            /\ Count(trace, "ls-") = 1

\* success at the third poll, the session having gone during the wait
C11_Witness ==
    /\ pc = "idle" /\ op = "stop_graceful"
    /\ result = Ok("StoppedGracefully")
    /\ trace = <<"ls+", "stuff", "sleep", "ls+", "sleep", "ls+", "sleep", "ls-">>

\* a forced stop never polls: one query on entry, then quit
ForcedStopNeverPolls ==
    op = "stop_forced" =>
        /\ Len(trace) <= 2
        /\ ~Contains(trace, "sleep")
        /\ Count(trace, "ls+") + Count(trace, "ls-") <= 1
        /\ ~Contains(trace, "stuff")

\* C12, read literally: a forced stop invoked while the session exists
\* terminates it at once and reports success unconditionally, without a
\* confirmation poll.
C12_ForcedStopAlwaysSucceeds ==
    /\ []ForcedStopNeverPolls
    /\ [][Leaves("stop_quit") =>
            /\ pc' = "idle"
            /\ result' = Ok("Terminated")
            /\ ~session']_vars

\* C12, with the outcome of quit taken into account: success, and the
\* session gone, when screen carried out the quit; "Failed to stop server"
\* when it did not; no confirmation poll either way.
C12_ForcedStop ==
    /\ []ForcedStopNeverPolls
    /\ [][Leaves("stop_quit") =>
            /\ pc' = "idle"
            /\ trace' \in {<<"ls+", "quit">>, <<"ls+", "quit_fail">>}
            /\ trace' = <<"ls+", "quit">> =>
                (result' = Ok("Terminated") /\ ~session')
            /\ trace' = <<"ls+", "quit_fail">> =>
                (result' = Fail("StopFailed") /\ session' = session)]_vars
    /\ []((op = "stop_forced" /\ result.ok) => trace = <<"ls+", "quit">>)

\* the session terminated by quit
C12_Witness ==
    /\ pc = "idle" /\ op = "stop_forced"
    /\ result = Ok("Terminated")
    /\ trace = <<"ls+", "quit">>
    /\ ~session

(***************************************************************************)
(* Claims about the supervisor as a whole                                  *)
(***************************************************************************)
SideEffectEvents ==
    LaunchEvents \cup {"stuff", "stuff_fail", "quit", "quit_fail", "sleep"}

\* C13: the server state is never cached.  Every invocation of start, stop,
\* send_command and get_status begins with a query of the session, before
\* any side effect, and whether it is legal is decided by what that query
\* finds at that moment, whatever happened to the session since the last
\* invocation.
C13_StateNeverCached ==
    /\ [](trace # <<>> =>
            /\ trace[1] \in {"ls+", "ls-"}
            /\ trace[1] \notin SideEffectEvents)
    /\ [](pc \in {"start_check", "stop_check", "send_check", "status_check"} =>
            trace = <<>>)
    /\ [][Leaves("start_check") =>
            /\ trace'[1] = LsEvent(IsRunning)
            /\ result' = Fail("AlreadyRunning") <=> IsRunning]_vars
    /\ [][Leaves("stop_check") =>
            /\ trace'[1] = LsEvent(IsRunning)
            /\ result' = Fail("NotRunning") <=> ~IsRunning
            /\ pc' \in {"stop_stuff", "stop_quit"} <=> IsRunning]_vars
    /\ [][Leaves("send_check") =>
            /\ trace'[1] = LsEvent(IsRunning)
            /\ result' = Fail("NotRunning") <=> ~IsRunning
            /\ pc' = "send_stuff" <=> IsRunning]_vars
    /\ [][Leaves("status_check") =>
            /\ trace' = <<LsEvent(IsRunning)>>
            /\ status'.running = IsRunning
            /\ UNCHANGED <<envVars, histVars>>]_vars

\* the status reports a stopped server after one that ran: a command was
\* confirmed, and the session went away outside the tool
C13_Witness ==
    /\ pc = "idle" /\ op = "status"
    /\ sent # <<>>
    /\ screenBin /\ ~session
    /\ status = [known |-> TRUE, running |-> FALSE, installed |-> TRUE]
    /\ trace = <<"ls-">>

\* what every operation does without the screen binary, but for start()
NoBinaryOrdinaryResults ==
    /\ [][(Leaves("status_check") /\ ~screenBin) =>
            /\ trace' = <<"ls-">>
            /\ status'.known /\ ~status'.running
            /\ result' = Ok("Status")]_vars
    /\ [][(Leaves("stop_check") /\ ~screenBin) =>
            /\ trace' = <<"ls-">>
            /\ pc' = "idle"
            /\ result' = Fail("NotRunning")]_vars
    /\ [][(Leaves("send_check") /\ ~screenBin) =>
            /\ trace' = <<"ls-">>
            /\ pc' = "idle"
            /\ result' = Fail("NotRunning")]_vars
    /\ [][(Leaves("start_launch") /\ ~screenBin) =>
            /\ pc' = "idle"
            /\ result' = Fail("ScreenNotFound")]_vars
    /\ [][(~screenBin /\ pc # "idle") => result'.err # "Raised"]_vars

\* C14, read literally: without the screen binary the session query
\* answers false, status reports running = false, stop and send_command
\* return "not running", and start returns the failure that names screen.
C14_NoBinary ==
    /\ NoBinaryOrdinaryResults
    /\ [][(Leaves("start_check") /\ ~screenBin) =>
            /\ trace'[1] = "ls-"
            /\ pc' = "start_launch"]_vars

\* C14, with the installed check of start() taken into account: start
\* names screen when server.jar is there and returns "not installed" when
\* it is not.
C14_NoBinaryJarChecked ==
    /\ NoBinaryOrdinaryResults
    /\ [][(Leaves("start_check") /\ ~screenBin) =>
            /\ trace'[1] = "ls-"
            /\ IF jar THEN pc' = "start_launch"
                      ELSE pc' = "idle" /\ result' = Fail("NotInstalled")]_vars
    /\ []((op = "start" /\ Contains(trace, "launch_nobin")) =>
            result = Fail("ScreenNotFound"))

\* start() naming the missing screen although a session is there
C14_Witness ==
    /\ pc = "idle" /\ op = "start"
    /\ ~screenBin /\ session /\ jar
    /\ result = Fail("ScreenNotFound")
    /\ trace = <<"ls-", "jar+", "launch_nobin">>

(***************************************************************************)
(* create_backup and retention                                             *)
(***************************************************************************)
BackupDone == pc = "idle" /\ op = "backup" /\ result = Ok("BackupCreated")

\* every archive left is at least as recently modified as every one removed
MostRecentKept ==
    \A a \in archives : \A b \in prePrune \ archives : a.mtime >= b.mtime

\* C15: once more backups have been created in sequence than max_backups
\* allows, exactly max_backups archive files are in the backups directory,
\* and they are the most recently modified ones
C15_RetentionAfterCreation ==
    (BackupDone /\ madeCount > maxBackups)
        => /\ Cardinality(archives) = maxBackups
           /\ MostRecentKept

\* C16, read literally: between operations the backups directory never
\* holds more archive files than max_backups
C16_RetentionInvariant ==
    pc = "idle" => Cardinality(archives) <= maxBackups

\* C16, at the point where the code prunes: when create_backup has returned
\* success, the backups directory holds at most max_backups archive files,
\* the most recently modified ones
C16_RetentionAfterBackup ==
    BackupDone => /\ Cardinality(archives) <= maxBackups
                  /\ MostRecentKept

C16_Witness ==
    /\ BackupDone
    /\ Cardinality(prePrune) > maxBackups + 1
    /\ Cardinality(archives) = maxBackups

\* C17: create_backup with no world folder returns NoWorlds, makes neither
\* the backups directory nor an archive, and prunes nothing
C17_NoWorlds ==
    [][(Leaves("backup_scan") /\ worlds = {})
        => /\ pc' = "idle"
           /\ result' = Fail("NoWorlds")
           /\ backupDir' = before.dir
           /\ archives' = before.files
           /\ ~Contains(trace', "makedirs")
           /\ ~Contains(trace', "prune")]_vars

C17_Witness ==
    /\ pc = "idle"
    /\ result = Fail("NoWorlds")
    /\ ~backupDir
    /\ archives = {}

\* C18: when writing the archive fails part-way, create_backup returns
\* ArchiveError, the partial file is in the backups directory, no pruning
\* runs and every file that was there is still there; those of another name
\* are as they were
C18_ArchiveError ==
    [][(Leaves("backup_write") /\ trace'[Len(trace')] = "write_partial")
        => /\ pc' = "idle"
           /\ result' = Fail("ArchiveError")
           /\ \E a \in archives' : NameOf(a) = target /\ a.partial
           /\ ~Contains(trace', "prune")
           /\ \A b \in before.files :
                /\ \E a \in archives' : NameOf(a) = NameOf(b)
                /\ NameOf(b) # target => b \in archives']_vars

C18_Witness ==
    /\ pc = "idle"
    /\ result = Fail("ArchiveError")
    /\ \E a \in archives : NameOf(a) = target /\ a.partial
    /\ before.files # {}
    /\ before.files \subseteq archives
    /\ Cardinality(archives) > maxBackups

(***************************************************************************)
(* Config: round trip and loading                                          *)
(***************************************************************************)
\* C19: a freshly constructed Config returns for every key the value last
\* set for it, whatever was set on other keys since; keys never set have
\* the value the file held at the start, and the default where it held none
C19_RoundTrip ==
    cfgState = "fresh" => \A k \in AllKeys : cfgData[k] = expected[k]

C19_Witness ==
    /\ cfgState = "fresh"
    /\ setKeys = {"ram_gb", "motd"}
    /\ cfgData["ram_gb"] = PyInt(8)
    /\ cfgData["motd"] = PyNone
    /\ cfgData["current_version"] = PyInt(32)
    /\ cfgData["auto_backup"] = Defaults["auto_backup"]

\* C20: constructing a Config never raises, whatever the file holds; keys
\* the file lacks have their defaults, and a file that is not an object
\* gives the defaults throughout
C20_LoadNeverFails ==
    /\ cfgState # "raised"
    /\ (cfgState = "fresh" /\ setKeys = {})
        => \A k \in AllKeys :
            (cfgFile.top # "object" \/ cfgFile.m[k] = Missing)
                => cfgData[k] = Defaults[k]

(***************************************************************************)
(* Installation                                                            *)
(***************************************************************************)
\* a number was typed at one of the two RAM prompts
RamEntered ==
    /\ Leaves("install_ram") \/ Leaves("settings_ram")
    /\ trace'[Len(trace')] = "ram"

\* the prompt took the value: the installation goes on to its
\* confirmation, the settings screen stores it
RamTaken ==
    IF pc = "install_ram" THEN pc' = "install_confirm" /\ req'.ram = arg'
    ELSE ramGb' = arg' /\ result'.ok

\* C21: a RAM value typed at the installation prompt or at the settings
\* prompt is taken exactly when it is within 1..64; a value outside ends
\* the operation with ram_gb, current_version and server_type as they were
C21_RamValidation ==
    [][RamEntered =>
        /\ RamTaken <=> (1 <= arg' /\ arg' <= 64)
        /\ (arg' < 1 \/ arg' > 64)
            => /\ pc' = "idle"
               /\ result' = Fail("InvalidRam")
               /\ InstallRecord' = recBefore]_vars

C21_Witness ==
    /\ pc = "idle" /\ op = "install"
    /\ result = Fail("InvalidRam")
    /\ arg = 65
    /\ trace = <<"fetch", "ram">>
    /\ InstallRecord = recBefore

\* C23: an installation that returned success has stored the requested
\* version and RAM and the server type of the installer used; one that ended
\* otherwise has left the three as they were
C23_InstallRecordUpdate ==
    (pc = "idle" /\ op \in {"install", "switch"})
        => IF result = Ok("Installed")
           THEN InstallRecord =
                    [ver |-> req.ver, ram |-> req.ram,
                     type |-> IF op = "install" /\ req.paper
                              THEN "paper" ELSE "vanilla"]
           ELSE InstallRecord = recBefore

C23_Witness ==
    /\ pc = "idle" /\ op = "install"
    /\ result = Fail("DownloadFailed")
    /\ req.paper
    /\ req.ver # curVersion /\ req.ram # ramGb /\ serverType = "vanilla"
    /\ trace = <<"fetch", "ram", "url", "download_fail">>

\* C22: no operation lets an exception out: whatever the environment does,
\* what an operation ends with is a (success, message) result
C22_NoOperationThrows ==
    result # Fail("Raised")

(***************************************************************************)
(* Version change                                                          *)
(***************************************************************************)
InstallEvents == {"url", "url_fail", "download", "download_fail"}

\* at position j of the trace a backup was made, or one failed and the
\* user chose to continue
BackupSettledAt(j) ==
    \/ trace[j] = "backup"
    \/ /\ trace[j] = "backup_fail"
       /\ j < Len(trace)
       /\ trace[j + 1] = "continue"

SwitchOrder ==
    \A i \in 1..Len(trace) :
        trace[i] \in InstallEvents
            => IF req.auto
               THEN \E j \in 1..(i - 1) : BackupSettledAt(j)
               ELSE ~Contains(trace, "backup") /\ ~Contains(trace, "backup_fail")

\* C30: in a version change with auto_backup on, install is entered only
\* after create_backup has made its archive, named with the version that
\* was current when the change began, or after it failed and the user
\* chose to continue; with auto_backup off no backup is attempted and the
\* archives stay as they are
C30_BackupBeforeSwitch ==
    [][(op' = "switch")
        => /\ SwitchOrder'
           /\ Contains(trace', "backup")
                => target' = [ver |-> recBefore'.ver, sec |-> clock']
           /\ (op = "switch" /\ ~req.auto) => archives' = archives]_vars

C30_Witness ==
    /\ pc = "idle" /\ op = "switch"
    /\ result = Ok("Installed")
    /\ req.auto
    /\ curVersion = 2 /\ recBefore.ver = 1
    /\ \E a \in archives : a.ver = 1 /\ ~a.partial
    /\ trace = <<"fetch", "stop", "backup", "url", "download">>

(***************************************************************************)
(* Console                                                                 *)
(***************************************************************************)
\* the key just handled was k
Pressed(k) == pc = "console_key" /\ lastKey' = k

\* the key handler went through and the loop goes on
LoopGoesOn == pc' = "console_draw"

EnterResets ==
    /\ cbuf' = <<>>
    /\ cursorPos' = 0
    /\ historyIdx' = -1
    /\ autoScroll'

\* C24 as stated: Enter on any non-empty buffer resets the input state, and
\* send_command is called once if the server is running at that moment and
\* not at all if it is stopped
C24_EnterLiteral ==
    [][(Pressed("enter") /\ cbuf # <<>>)
        => /\ LoopGoesOn => EnterResets
           /\ Count(trace', "send_call") = IF IsRunning THEN 1 ELSE 0]_vars

\* C24: Enter on a buffer that is non-empty after stripping whitespace
\* resets buffer, edit cursor, history cursor and auto-scroll, and calls
\* send_command with the stripped buffer exactly once if the status read at
\* the last redraw was running and not at all otherwise; an exception out
\* of send_command ends the console after that one call.  Enter on an
\* empty or whitespace-only buffer changes nothing.
C24_EnterDispatch ==
    [][Pressed("enter")
        => IF Strip(cbuf) = <<>>
           THEN /\ UNCHANGED <<cbuf, cursorPos, historyIdx, autoScroll, sent>>
                /\ ~Contains(trace', "send_call")
                /\ LoopGoesOn
           ELSE /\ LoopGoesOn => EnterResets
                /\ ~LoopGoesOn => /\ result' = Fail("Raised")
                                  /\ Contains(trace', "send_call")
                /\ Count(trace', "send_call") = IF seenRunning THEN 1 ELSE 0
                /\ sent' \in {sent, Append(sent, Strip(cbuf))}]_vars

C24_Witness ==
    /\ pc = "console_draw" /\ lastKey = "enter"
    /\ trace = <<"send_call", "ls+", "stuff">>
    /\ sent = << <<"a">> >>
    /\ history0 = <<>> /\ history = << <<"a">> >>
    /\ cbuf = <<>> /\ cursorPos = 0 /\ historyIdx = -1 /\ autoScroll

\* buffer and edit cursor show entry i (counted from 0) of the console's
\* history
Shows(i) == cbuf' = chist[i + 1] /\ cursorPos' = Len(chist[i + 1])

\* C25: Up moves the history cursor one entry older and Down one entry
\* newer, the buffer becoming that entry and the edit cursor its length; Up
\* at the oldest entry (or with no history) changes nothing; Down from the
\* newest entry empties the buffer and resets the history cursor; Down with
\* no entry selected changes nothing
C25_HistoryNavigation ==
    [][/\ Pressed("up")
          => IF historyIdx + 1 < Len(chist)
             THEN historyIdx' = historyIdx + 1 /\ Shows(historyIdx + 1)
             ELSE UNCHANGED <<historyIdx, cbuf, cursorPos>>
       /\ Pressed("down")
          => IF historyIdx > 0
             THEN historyIdx' = historyIdx - 1 /\ Shows(historyIdx - 1)
             ELSE IF historyIdx = 0
             THEN historyIdx' = -1 /\ cbuf' = <<>> /\ cursorPos' = 0
             ELSE UNCHANGED <<historyIdx, cbuf, cursorPos>>
       /\ (Pressed("up") \/ Pressed("down"))
          => /\ LoopGoesOn
             /\ UNCHANGED <<chist, history, stored, sent, autoScroll,
                            scrollOffset>>]_vars

\* Up twice, then Down: the newest entry is selected and shown
C25_Witness ==
    /\ pc = "console_draw" /\ lastKey = "down"
    /\ Len(chist) = 2 /\ historyIdx = 0
    /\ cbuf = chist[1] /\ cursorPos = Len(cbuf)

\* the offset of the last page of the log as read at the last redraw
LastPage == Max0(nlines - VisibleLines)

\* C26: PageUp turns auto-scroll off and moves the window back one page,
\* not below 0; PageDown moves it forward one page, not past the last
\* page, and turns auto-scroll on exactly when the window is then at the
\* last page, leaving it as it was otherwise
C26_Paging ==
    [][/\ Pressed("pgup")
          => /\ ~autoScroll'
             /\ scrollOffset' = Max0(scrollOffset - VisibleLines)
       /\ Pressed("pgdn")
          => /\ scrollOffset' = Min(LastPage, scrollOffset + VisibleLines)
             /\ autoScroll' = IF scrollOffset' = LastPage THEN TRUE
                              ELSE autoScroll
       /\ (Pressed("pgup") \/ Pressed("pgdn"))
          => /\ LoopGoesOn
             /\ UNCHANGED <<cbuf, cursorPos, historyIdx, histLocals>>]_vars

\* PageDown over a log of four lines with auto-scroll off: the window is
\* one page short of the end and auto-scroll stays off
C26_Witness ==
    /\ pc = "console_draw" /\ lastKey = "pgdn"
    /\ nlines = 4 /\ scrollOffset = 2
    /\ ~autoScroll

\* the buffer has c at the place the cursor was, what was before the cursor
\* before it and what was from the cursor on after it; the cursor is one
\* further
InsertedAtCursor(c) ==
    /\ Len(cbuf') = Len(cbuf) + 1
    /\ \A i \in 1..Len(cbuf') :
        cbuf'[i] = IF i <= cursorPos THEN cbuf[i]
                   ELSE IF i = cursorPos + 1 THEN c
                   ELSE cbuf[i - 1]
    /\ cursorPos' = cursorPos + 1

\* the character before the cursor is gone, the cursor one back
DeletedBeforeCursor ==
    /\ Len(cbuf') = Len(cbuf) - 1
    /\ \A i \in 1..Len(cbuf') :
        cbuf'[i] = IF i < cursorPos THEN cbuf[i] ELSE cbuf[i + 1]
    /\ cursorPos' = cursorPos - 1

\* what a printable character does to the input state
TypedAsText(c) ==
    /\ InsertedAtCursor(c)
    /\ historyIdx' = -1

\* C27: the toggle key flips auto-scroll and leaves the buffer as it is
\* when the buffer is empty; on a non-empty buffer it is typed as any
\* printable character is (inserted at the cursor, cursor advanced, history
\* cursor reset) and auto-scroll stays as it is
C27_ToggleKey ==
    [][Pressed(ToggleChar)
        => IF cbuf = <<>>
           THEN /\ autoScroll' = ~autoScroll
                /\ UNCHANGED <<cbuf, cursorPos>>
           ELSE /\ TypedAsText(ToggleChar)
                /\ autoScroll' = autoScroll]_vars

\* control is inside handle_console
InConsole == pc \in {"console_draw", "console_key"}

\* C28: Escape ends the console loop, and whichever way the loop is left,
\* by Escape or by an exception raised in its body, input is back in
\* blocking mode when control returns to the caller; inside the loop input
\* is non-blocking
C28_ConsoleExit ==
    [][/\ Pressed("esc") => pc' = "idle" /\ result' = Ok("ConsoleClosed")
       /\ (InConsole /\ ~InConsole') => inputMode' = "blocking"
       /\ InConsole' => inputMode' = "nonblocking"]_vars

\* the save inside send_command raised through the loop body
C28_Witness ==
    /\ pc = "idle" /\ op = "console"
    /\ lastKey = "enter"
    /\ result = Fail("Raised")
    /\ trace = <<"send_call", "ls+", "stuff">>
    /\ inputMode = "blocking"

\* what the editing keys leave alone: the window, auto-scroll, the
\* histories and what the server was sent
EditFrame ==
    /\ LoopGoesOn
    /\ trace' = <<>>
    /\ UNCHANGED <<scrollOffset, autoScroll, histLocals, session, log>>

\* C29 as stated: every printable character is inserted at the cursor
C29_EditingLiteral ==
    [][\A c \in Chars :
        Pressed(c) => InsertedAtCursor(c)]_vars

\* C29: a printable character is inserted into the buffer at the cursor
\* and the cursor advances by one, except the toggle key on an empty
\* buffer, which is not inserted; Backspace deletes the character before
\* the cursor, Left and Right move the cursor within the buffer; all of
\* them leave scroll offset, auto-scroll, the histories and the server as
\* they are, the toggle key on an empty buffer flipping auto-scroll
C29_EditingKeys ==
    [][/\ \A c \in Chars :
            (Pressed(c) /\ ~(c = ToggleChar /\ cbuf = <<>>))
                => InsertedAtCursor(c) /\ EditFrame
       /\ (Pressed(ToggleChar) /\ cbuf = <<>>) => UNCHANGED <<cbuf, cursorPos>>
       /\ Pressed("backspace")
            => /\ IF cursorPos > 0
                  THEN DeletedBeforeCursor
                  ELSE UNCHANGED <<cbuf, cursorPos>>
               /\ UNCHANGED historyIdx
               /\ EditFrame
       /\ Pressed("left")
            => /\ cursorPos' = Max0(cursorPos - 1)
               /\ UNCHANGED <<cbuf, historyIdx>>
               /\ EditFrame
       /\ Pressed("right")
            => /\ cursorPos' = Min(Len(cbuf), cursorPos + 1)
               /\ UNCHANGED <<cbuf, historyIdx>>
               /\ EditFrame]_vars

\* a blank typed, Left, then the toggle key: it went in before the blank
C29_Witness ==
    /\ pc = "console_draw" /\ lastKey = ToggleChar
    /\ cbuf = <<ToggleChar, " ">>
    /\ cursorPos = 1

(***************************************************************************)
(* Listing                                                                 *)
(***************************************************************************)
\* C31: list_backups returns exactly the archive files of the backups
\* directory, each once, later modification times first, and the empty
\* sequence when the directory does not exist
C31_ListBackups ==
    (pc = "idle" /\ op = "list")
        => /\ Range(listing) = archives
           /\ Len(listing) = Cardinality(archives)
           /\ \A i, j \in 1..Len(listing) :
                i < j => listing[i].mtime >= listing[j].mtime
           /\ ~backupDir => listing = <<>>

(***************************************************************************)
(* The invocations of start()                                              *)
(***************************************************************************)
\* the events of the trace that are calls of subprocess.run
IsSubprocess(e) == e \notin {"jar+", "jar-", "sleep"}

\* C32: a successful start() has run, in this order, the session query,
\* the validation of the Java runtime, the launch and the session re-query
C32_StartInvocations ==
    (pc = "idle" /\ op = "start" /\ result = Ok("Started"))
        => SelectSeq(trace, IsSubprocess) = <<"ls-", "java", "launch", "ls+">>

(***************************************************************************)
(* Two invocations on one configuration file                               *)
(***************************************************************************)
\* the invocation `who` has just saved its configuration
SavedBy(who) ==
    /\ op' = "shared_send"
    /\ trace' = <<who, "stuff">>
    /\ ~Contains(MemoryOf(who), arg')

\* C33: a save replaces the whole file by what the saving invocation has
\* in memory, without reading the file: afterwards the stored history is
\* that invocation's own, so an entry the other invocation had stored, and
\* this one had not loaded, is no longer in the file
C33_WholeRecordSave ==
    [][\A who \in Invocations :
        SavedBy(who)
            => /\ stored' = <<arg'>> \o MemoryOf(who)
               /\ \A c \in Range(stored) :
                    Contains(stored', c) <=> Contains(MemoryOf(who), c) \/ c = arg']_vars

\* A's command 1 was confirmed and stored; B, started before that, then
\* sent command 2 and its save left the file without command 1
C33_Witness ==
    /\ sent = <<1, 2>>
    /\ history0 = <<>>
    /\ history = <<1>>
    /\ historyB = <<2>>
    /\ stored = <<2>>
    /\ 1 \in persisted
    /\ trace = <<"B", "stuff">>

(***************************************************************************)
(* The archive a create_backup call has made                               *)
(***************************************************************************)
\* C34: when create_backup returns success (max_backups >= 1), the archive
\* named in its result is in the backups directory: its own pruning has
\* not removed it, whatever the modification times of the other archives
C34_NewArchiveSurvives ==
    (BackupDone /\ maxBackups >= 1)
        => \E a \in archives : NameOf(a) = target

\* C35: the archive of a successful create_backup has a name that no
\* archive in the backups directory had when it was invoked, so that no
\* earlier backup is overwritten
C35_FreshName ==
    BackupDone => \A b \in before.files : NameOf(b) # target

(***************************************************************************)
(* The console's history and the supervisor's                              *)
(***************************************************************************)
\* the history Up and Down walk is the supervisor's command history
NavigatesCommandHistory == InConsole => chist = history

\* Up from the unselected state recalls the command dispatched last
UpRecallsLast ==
    (Pressed("up") /\ historyIdx = -1 /\ sent # <<>>)
        => cbuf' = sent[Len(sent)]

\* C36: while the console is open the history that Up and Down walk equals
\* the supervisor's command history and has at most 20 entries, and Up
\* pressed once recalls the command dispatched last
C36_ConsoleHistoryCurrent ==
    /\ [](NavigatesCommandHistory /\ Len(chist) <= HistoryCap)
    /\ [][UpRecallsLast]_vars

(***************************************************************************)
(* Version change and the running server                                   *)
(***************************************************************************)
\* C37: in a version change, install is entered and server.jar is
\* replaced only while no session exists: a running server has been
\* stopped first, and a stop that did not end the session is not followed
\* by the install
C37_NoSwitchWhileRunning ==
    [][(op = "switch" /\ (Leaves("switch_ram") \/ Leaves("install_download")))
        => ~IsRunning]_vars

(***************************************************************************)
(* Whose output the crash message carries                                  *)
(***************************************************************************)
\* the lines appended to server.log since the launch of this start()
SinceLaunch == SubSeq(log.lines, launchLen + 1, Len(log.lines))

\* C38 as stated: the tail of a crash-on-start result holds only lines
\* written by the launch that failed, and a launch that wrote nothing gives
\* "exited immediately" whatever the log held before
C38_TailOfThisLaunch ==
    [][Leaves("start_requery")
        => /\ result'.err = "CrashedOnStart"
                => Len(result'.tail) <= Len(SinceLaunch)
           /\ (~IsRunning /\ SinceLaunch = <<>>)
                => result' = Fail("ExitedImmediately")]_vars

\* C38: the tail of a crash-on-start result is the last 10 lines of
\* server.log as the file stands at the re-query, whichever run wrote
\* them; "exited immediately" is returned exactly when the file is absent
\* or those lines are all blank, also for a launch that wrote nothing
C38_TailOfTheFile ==
    [][(Leaves("start_requery") /\ ~IsRunning)
        => LET tail == LastN(log.lines, TailLines)
           IN  IF log.exists /\ (\E i \in 1..Len(tail) : tail[i] # "blank")
               THEN /\ result'.err = "CrashedOnStart"
                    /\ result'.tail = tail
               ELSE result' = Fail("ExitedImmediately")]_vars

\* a launch that wrote nothing is reported with the lines of an earlier run
C38_Witness ==
    /\ pc = "idle" /\ op = "start"
    /\ result.err = "CrashedOnStart"
    /\ launchLen > 0
    /\ Len(log.lines) = launchLen
    /\ result.tail = LastN(log.lines, TailLines)

(***************************************************************************)
(* Console invariants                                                      *)
(***************************************************************************)
\* C39: at every redraw, after any keys and any growth of the log, the
\* scroll offset lies between 0 and max(0, L - N) for the L lines read
\* and the N lines shown, and is max(0, L - N) when auto-scroll is on
C39_ScrollInvariant ==
    pc = "console_key"
        => /\ 0 <= scrollOffset
           /\ scrollOffset <= (IF nlines > VisibleLines
                               THEN nlines - VisibleLines ELSE 0)
           /\ autoScroll
                => scrollOffset = (IF nlines > VisibleLines
                                   THEN nlines - VisibleLines ELSE 0)

\* the log grew by two lines while auto-scroll was off: the window stays
\* where it was, two pages short of the end
C39_Witness ==
    /\ pc = "console_key"
    /\ ~autoScroll
    /\ nlines = 4
    /\ scrollOffset = 1

\* C40: while the console is open the edit cursor lies between 0 and the
\* length of the command buffer, and the history cursor between -1 and the
\* last index of the history the console navigates
C40_CursorInvariants ==
    InConsole
        => /\ 0 <= cursorPos /\ cursorPos <= Len(cbuf)
           /\ -1 <= historyIdx /\ historyIdx < Len(chist)

\* the oldest of two entries is selected, the cursor at the end of a full
\* buffer after Left and Right
C40_Witness ==
    /\ pc = "console_draw" /\ lastKey = "right"
    /\ historyIdx = Len(chist) - 1 /\ Len(chist) = 2
    /\ cursorPos = Len(cbuf) /\ Len(cbuf) = MaxBuf

====
